---- MODULE Spec2Model ----
(***************************************************************************)
(* A model of the mpetk remote-object / publish-subscribe middleware:      *)
(*   - the Router of mpetk/aibsmw/routerio/router.py (topic fan-out),      *)
(*   - the RemoteObject server of mpetk/zro/device.py (GET/SET/RUN         *)
(*     dispatch, asynchronous calls),                                      *)
(*   - the DeviceProxy of zro/proxy.py (request/reply client stub).        *)
(* Each component has its own specification over the shared variables.     *)
(***************************************************************************)
EXTENDS Integers, Sequences, FiniteSets, TLC

VARIABLES
    \* ---- Router (router.py, class Router)
    registration,      \* self.registration: topic -> list of client identities
    message_headers,   \* self.message_headers: list of (client, message_id)
    clients,           \* self.clients: set of identities seen on a non-handshake frame
    packet,            \* the frame read by the last iteration of _poll
    sent,              \* frames written by send_multipart in the last iteration
    delivered,         \* frames of the last iteration that reached a connected peer
    stale,             \* identities whose peer has disconnected
    crashed,           \* an exception has left Router._poll
    \* ---- RemoteObject (device.py, class RemoteObject)
    members,           \* the members of self._obj_ (the served object): name -> member
    async_results,     \* self._async_results: handle -> stored result
    async_handle_index,\* self._async_handle_index
    async_handle_list, \* self._async_handle_list
    timers,            \* calls scheduled by call_async that have not run yet
    send_func,         \* self.__send_func: the serializer of the next reply
    closed,            \* close() has run
    rep_state,         \* state of the REP socket: "recv" (idle) or "send" (owes a reply)
    event,             \* the last operation: a request frame, a local call or a timer
    replies,           \* frames sent on the reply socket while handling the last request
    codecs,            \* the serialization of each of these frames: "pickle" or "json"
    escaped,           \* exception that left _handle_request for the last request, or ""
    ran,               \* members of the target invoked while handling the last request
    ret,               \* outcome of the last local call_async / get_async_result
    \* ---- DeviceProxy (proxy.py, class DeviceProxy)
    serialization,     \* self.serialization: "pickle" or "json"
    req_state,         \* state of the REQ socket: "ready" or "awaiting" (a reply is due)
    req_socket,        \* number of request sockets built after the first one
    to_call,           \* self.to_call: the name the call-forwarder will run
    held,              \* method names whose call-forwarder the caller has obtained
    responsive,        \* the server process is running its event loop
    pop,               \* the last proxy operation and its outcome
    pprev,             \* the proxy operation before it
    \* ---- ZROProxy and RemoteObjectService (ZRO.py)
    zmembers,          \* the members of self._client (the served object)
    zalive,            \* the service loop of RemoteObjectService.start is running
    zresponsive,       \* the service process is scheduled and polls its socket
    zreq_state,        \* state of the proxy's REQ socket: "ready" or "awaiting"
    z_to_call,         \* self.__to_call
    zheld,             \* the caller has obtained remote_call from a read
    zop,               \* the last ZROProxy operation and its outcome
    zprev,             \* the ZROProxy operation before it
    \* ---- ConfigFile (config.py) and DeviceManager (proxy.py)
    devices,           \* self.config['devices']: list of device entries
    cfg_op,            \* the last ConfigFile operation and its outcome
    up,                \* addresses (ip, rep_port) at which a device answers
    dm_op,             \* the last DeviceManager operation and its outcome
    \* ---- BasePubRepDevice / BaseSubRepDevice (device.py)
    pub_hwm,           \* self._hwm: SNDHWM of the publish socket
    pub_queue,         \* messages queued in the publish socket for the subscriber
    sub_connected,     \* the subscriber's socket is connected and subscribed
    sub_queue,         \* messages queued in the subscriber's socket
    observed,          \* values the subscriber's handle_data has been given
    pub_count,         \* number of values published so far
    missed,            \* values published while no subscriber was connected
    read_at,           \* values of pub_count at which _check_sub has run
    pub_op,            \* the last publish and its outcome
    \* ---- RemoteObject: asynchronous callbacks (device.py)
    async_callbacks,   \* self._async_callbacks: method name -> list of destinations
    dest_down,         \* destination addresses whose proxy call raises
    cb_sent,           \* deliveries made by the last _call_async: (destination, result)
    cb_logged,         \* code of the ZroError the last _call_async logged (0: none)
    tthreads,          \* threaded_async: handle -> the timer thread running _call_async
    thread_touched,    \* fields of the device a timer thread has read or written
    \* ---- Router._poll statement by statement (router.py)
    inbox,             \* frames queued in the ROUTER socket, not yet received
    rpos,              \* where _poll is: at recv_multipart or inside a forwarding loop
    wire,              \* every send_multipart so far, with the number of its inbound frame
    recv_count,        \* number of frames recv_multipart has returned
    planned,           \* for each received frame, its recipients as of its receipt
    arrivals,          \* (sender, message id) of every non-handshake frame received
    \* ---- BaseSubRepDevice: subscription sockets (device.py)
    subscriptions,     \* self._subscriptions: ordered list of (connection string, socket)
    open_socks,        \* SUB sockets of the device that are open
    sock_count,        \* number of SUB sockets created so far
    sub_pending,       \* open sockets that hold a received message
    handled,           \* calls of handle_data in the last _check_sub: (name, origin)
    sub_raised,        \* exception that left the last subscription call, or ""
    \* ---- Producer, Consumer and Sink devices (device.py)
    push_count,        \* number of work items the producer has pushed
    pushed_in,         \* for each pushed id, the sink's batch at the time of the push
    work_q,            \* consumer -> packets queued in its PULL socket
    has_sink,          \* consumers whose _push_sock is set (set_sink was called)
    result_q,          \* result packets queued in the sink's PULL socket
    batch,             \* the sink's self.batch
    sink_handled,      \* calls of the sink's handle_data: (batch, id, data)
    no_sink,           \* ids processed by a consumer that had no sink configured
    \* ---- DeviceProxy and a server that answers late (proxy.py)
    rq_sock,           \* number of the proxy's current REQ socket
    rq_state,          \* state of that socket: "ready" or "awaiting" (a reply is due)
    rq_seq,            \* number of requests the proxy has sent
    rq_server,         \* requests the server has not answered yet: (socket, request)
    rq_inbox,          \* replies received by the current socket and not read yet
    rq_op,             \* the last proxy operation and its outcome
    \* ---- SharedSessionId and its redis database (session_id_db.py)
    rdb,               \* the database: channel -> the value stored under that key
    expiry,            \* channel -> seconds until the key expires (0: no expiry)
    session,           \* instance -> self._session
    last_get,          \* instance -> self.last_get
    now,               \* time.time(), in seconds
    ss_call,           \* instance -> where its main thread is in start_session
    notified,          \* instance -> keyspace messages its subscription holds
    slept,             \* instance -> seconds its polling thread has slept
    changed_at,        \* channel -> time of the last set, delete or expiry
    starter,           \* channel -> the instance whose set stored the value
    overlapped,        \* channel -> another start_session ran during that set
    started,           \* number of session ids generated so far
    ss_kept,           \* the last start_session that was to keep the stored id
    \* ---- BaseSubRepDevice.run_forever (device.py)
    rf_running,        \* the while loop of run_forever has not been left
    rf_requests,       \* requests queued in the reply socket
    rf_messages,       \* messages queued in the subscription socket
    rf_replied,        \* number of replies sent on the reply socket
    rf_handled,        \* number of calls of handle_data that returned
    rf_arrived,        \* number of requests and messages that have arrived
    rf_logged,         \* what the except clause of run_forever logged, or ""
    \* ---- ZMQHandler (router.py)
    message_callbacks, \* keys of self.message_callbacks (each names its callback)
    h_message,         \* message id of the last frame read from the router
    h_receive,         \* what receive() does with that frame
    h_poll,            \* what an iteration of _poll does with that frame
    \* ---- RemoteObject.update_interval (device.py)
    update_interval,   \* self._update_interval
    update_timer,      \* self._update_timer: number of the DelayedCallback (0: None)
    scheduled,         \* DelayedCallbacks that have a timeout pending in the loop
    timer_objs,        \* number of DelayedCallbacks created so far
    ui_op              \* the last assignment or timeout and its outcome

routerVars == <<registration, message_headers, clients, packet, sent, delivered,
               stale, crashed>>

serverVars == <<members, async_results, async_handle_index, async_handle_list,
                timers, send_func, closed, rep_state, event, replies, codecs,
                escaped, ran, ret>>

proxyVars == <<serialization, req_state, req_socket, to_call, held, responsive,
               pop, pprev>>

zroVars == <<zmembers, zalive, zresponsive, zreq_state, z_to_call, zheld, zop,
             zprev>>

\* The components outside the router, the RemoteObject and the DeviceProxy.
configVars == <<devices, cfg_op>>

managerVars == <<up, dm_op>>

publisherVars == <<pub_hwm, pub_queue, sub_connected, sub_queue, observed,
                  pub_count, missed, read_at, pub_op>>

asyncVars == <<async_callbacks, dest_down, cb_sent, cb_logged>>

threadVars == <<tthreads, thread_touched>>

stepVars == <<inbox, rpos, wire, recv_count, planned>>

\* The components added after the publisher.
headerVars == <<arrivals>>

subVars == <<subscriptions, open_socks, sock_count, sub_pending, handled,
             sub_raised>>

pipeVars == <<push_count, pushed_in, work_q, has_sink, result_q, batch,
              sink_handled, no_sink>>

lateVars == <<rq_sock, rq_state, rq_seq, rq_server, rq_inbox, rq_op>>

sessionVars == <<rdb, expiry, session, last_get, now, ss_call, notified, slept,
                 changed_at, starter, overlapped, started, ss_kept>>

loopVars == <<rf_running, rf_requests, rf_messages, rf_replied, rf_handled,
              rf_arrived, rf_logged>>

\* The components added after the shared session id.
handlerVars == <<message_callbacks, h_message, h_receive, h_poll>>

intervalVars == <<update_interval, update_timer, scheduled, timer_objs, ui_op>>

tailVars == <<loopVars, handlerVars, intervalVars>>

notSessionVars == <<routerVars, serverVars, proxyVars, zroVars, configVars,
                    managerVars, publisherVars, asyncVars, threadVars,
                    stepVars, headerVars, subVars, pipeVars, lateVars,
                    tailVars>>

beforeTailVars == <<routerVars, serverVars, proxyVars, zroVars, configVars,
                    managerVars, publisherVars, asyncVars, threadVars,
                    stepVars, headerVars, subVars, pipeVars, lateVars,
                    sessionVars>>

notLoopVars == <<beforeTailVars, handlerVars, intervalVars>>
notHandlerVars == <<beforeTailVars, loopVars, intervalVars>>
notIntervalVars == <<beforeTailVars, loopVars, handlerVars>>

laterVars == <<asyncVars, threadVars, stepVars, headerVars, subVars, pipeVars, lateVars, sessionVars, tailVars>>
notAsyncLaterVars == <<threadVars, stepVars, headerVars, subVars, pipeVars, lateVars, sessionVars, tailVars>>
notThreadLaterVars == <<stepVars, headerVars, subVars, pipeVars, lateVars, sessionVars, tailVars>>
notStepLaterVars == <<asyncVars, threadVars, headerVars, subVars, pipeVars, lateVars, sessionVars, tailVars>>
notHeaderLaterVars == <<asyncVars, threadVars, stepVars, subVars, pipeVars, lateVars, sessionVars, tailVars>>
notSubVars == <<routerVars, serverVars, proxyVars, zroVars, configVars,
                managerVars, publisherVars, asyncVars, threadVars, stepVars,
                headerVars, pipeVars,
                lateVars, sessionVars, tailVars>>
notPipeVars == <<routerVars, serverVars, proxyVars, zroVars, configVars,
                 managerVars, publisherVars, asyncVars, threadVars, stepVars,
                 headerVars, subVars,
                lateVars, sessionVars, tailVars>>

extVars == <<zroVars, configVars, managerVars, publisherVars, laterVars>>

vars == <<routerVars, serverVars, proxyVars, extVars>>

\* What each component leaves alone.
notRouterVars == <<serverVars, proxyVars, extVars>>
notServerVars == <<routerVars, proxyVars, extVars>>
notZroVars == <<routerVars, serverVars, proxyVars, configVars, managerVars,
                publisherVars, laterVars>>
notConfigVars == <<routerVars, serverVars, proxyVars, zroVars, managerVars,
                   publisherVars, laterVars>>
notManagerVars == <<routerVars, serverVars, proxyVars, zroVars, configVars,
                    publisherVars, laterVars>>
notPublisherVars == <<routerVars, serverVars, proxyVars, zroVars, configVars,
                      managerVars, laterVars>>
earlierVars == <<routerVars, proxyVars, zroVars, configVars, managerVars,
                 publisherVars>>

(***************************************************************************)
(* Router                                                                  *)
(***************************************************************************)

\* Bounds of the exploration.
MaxFrames == 4

\* Program constants.
header_retention == 100

REGISTER == "register_for_message"
DEREGISTER == "deregister_for_message"
WILDCARD == "*"
HANDSHAKE == ""

\* Input sets of the exploration.
Clients == {"A", "B", "C", "D"}
RegTopics == {"T", WILDCARD}
DeregTopics == {"T"}
PlainIds == {"T"}
Payloads == {"p"}

Keys == RegTopics \cup DeregTopics \cup PlainIds \cup {REGISTER, DEREGISTER}

NoPacket == [client |-> "", message_id |-> "", payload |-> ""]

RECURSIVE SeqToSet(_)
SeqToSet(s) == IF s = <<>> THEN {} ELSE {Head(s)} \cup SeqToSet(Tail(s))

\* list.remove(x): drops the first occurrence of x.
RECURSIVE RemoveFirst(_, _)
RemoveFirst(s, x) ==
    IF s = <<>> THEN <<>>
    ELSE IF Head(s) = x THEN Tail(s)
    ELSE <<Head(s)>> \o RemoveFirst(Tail(s), x)

\* Number of occurrences of x in the list s.
RECURSIVE Count(_, _)
Count(s, x) ==
    IF s = <<>> THEN 0
    ELSE (IF Head(s) = x THEN 1 ELSE 0) + Count(Tail(s), x)

\* One forwarding loop: for cli in lst: if cli != client: packet[0] = cli; send.
RECURSIVE ForwardList(_, _)
ForwardList(lst, pkt) ==
    IF lst = <<>> THEN <<>>
    ELSE (IF Head(lst) # pkt.client
            THEN <<[client |-> Head(lst), message_id |-> pkt.message_id,
                    payload |-> pkt.payload]>>
            ELSE <<>>)
         \o ForwardList(Tail(lst), pkt)

\* Forward with the wildcard pass left out.
ForwardTopicOnly(reg, pkt) ==
    ForwardList(reg[pkt.message_id], pkt)

\* The two forwarding loops at the end of an iteration of _poll.
Forward(reg, pkt) ==
    ForwardList(reg[WILDCARD], pkt) \o ForwardList(reg[pkt.message_id], pkt)

\* send_multipart on a ROUTER socket that enforces routing (ROUTER_MANDATORY):
\* the first frame addressed to an identity with no peer raises.
RECURSIVE SendAllMandatory(_, _)
SendAllMandatory(frames, st) ==
    IF frames = <<>>
        THEN [sent |-> <<>>, delivered |-> <<>>, raised |-> FALSE]
    ELSE IF Head(frames).client \in st
        THEN [sent |-> <<>>, delivered |-> <<>>, raised |-> TRUE]
    ELSE LET rest == SendAllMandatory(Tail(frames), st) IN
         [sent |-> <<Head(frames)>> \o rest.sent,
          delivered |-> <<Head(frames)>> \o rest.delivered,
          raised |-> rest.raised]

\* send_multipart, frame by frame, on the ROUTER socket as __init__ creates
\* it (no ROUTER_MANDATORY): a frame addressed to an identity with no peer
\* is dropped by the socket and the call returns normally.
RECURSIVE SendAll(_, _)
SendAll(frames, st) ==
    IF frames = <<>>
        THEN [sent |-> <<>>, delivered |-> <<>>, raised |-> FALSE]
    ELSE LET rest == SendAll(Tail(frames), st) IN
         [sent |-> <<Head(frames)>> \o rest.sent,
          delivered |-> (IF Head(frames).client \in st THEN <<>>
                         ELSE <<Head(frames)>>) \o rest.delivered,
          raised |-> rest.raised]

\* register_for_message branch of _poll.  The membership test reads the list
\* stored under the frame's own message id, the append goes to the topic
\* named in the message.
RegisterClient(reg, client, message_id, topic) ==
    IF client \notin SeqToSet(reg[message_id])
        THEN [reg EXCEPT ![topic] = Append(@, client)]
        ELSE reg

\* deregister_for_message branch of _poll.  Both the membership test and the
\* removal use the list stored under the frame's own message id.
DeregisterClient(reg, client, message_id, topic) ==
    IF client \in SeqToSet(reg[message_id])
        THEN [reg EXCEPT ![message_id] = RemoveFirst(@, client)]
        ELSE reg

\* A buffer that refuses the new entry when it is full.
AppendHeaderKeepOldest(hs, client, message_id) ==
    IF Len(hs) >= header_retention THEN hs
    ELSE Append(hs, <<client, message_id>>)

\* message_headers.append(...); pop(0) when longer than header_retention.
AppendHeader(hs, client, message_id) ==
    LET h == Append(hs, <<client, message_id>>)
    IN IF Len(h) > header_retention THEN Tail(h) ELSE h

RouterInit ==
    /\ registration = [k \in Keys |-> <<>>]
    /\ message_headers = <<>>
    /\ clients = {}
    /\ packet = NoPacket
    /\ sent = <<>>
    /\ delivered = <<>>
    /\ stale = {}
    /\ crashed = FALSE

\* Handshake frame (empty second frame): echoed to its sender, nothing else.
Handshake(client) ==
    /\ ~crashed
    /\ packet' = [client |-> client, message_id |-> HANDSHAKE, payload |-> ""]
    /\ stale' = stale \ {client}
    /\ LET out == SendAll(<<packet'>>, stale')
       IN /\ sent' = out.sent
          /\ delivered' = out.delivered
          /\ crashed' = out.raised
    /\ UNCHANGED <<registration, message_headers, clients>>
    /\ UNCHANGED notRouterVars

\* One iteration of Router._poll on a three-frame message.
PollBody(client, message_id, payload) ==
    /\ ~crashed
    /\ stale' = stale \ {client}
    /\ packet' = [client |-> client, message_id |-> message_id, payload |-> payload]
    /\ clients' = clients \cup {client}
    /\ message_headers' = AppendHeader(message_headers, client, message_id)
    /\ LET reg1 == IF message_id = REGISTER
                     THEN RegisterClient(registration, client, message_id, payload)
                     ELSE registration
           reg2 == IF message_id = DEREGISTER
                     THEN DeregisterClient(reg1, client, message_id, payload)
                     ELSE reg1
           out == SendAll(Forward(reg2, packet'), stale')
       IN /\ registration' = reg2
          /\ sent' = out.sent
          /\ delivered' = out.delivered
          /\ crashed' = out.raised

Poll(client, message_id, payload) ==
    /\ Len(message_headers) < MaxFrames
    /\ PollBody(client, message_id, payload)
    /\ UNCHANGED notRouterVars

RouterHandshake == \E c \in Clients : Handshake(c)
RouterRegister == \E c \in Clients, t \in RegTopics : Poll(c, REGISTER, t)
RouterDeregister == \E c \in Clients, t \in DeregTopics : Poll(c, DEREGISTER, t)
RouterMessage == \E c \in Clients, t \in PlainIds, p \in Payloads : Poll(c, t, p)

RouterNext ==
    \/ RouterHandshake
    \/ RouterRegister
    \/ RouterDeregister
    \/ RouterMessage

\* The peer behind an identity disconnects; the router is not told.
Disconnect(client) ==
    /\ client \in clients
    /\ client \notin stale
    /\ stale' = stale \cup {client}
    /\ UNCHANGED <<registration, message_headers, clients, packet, sent,
                   delivered, crashed>>
    /\ UNCHANGED notRouterVars

\* Input sets of the exploration.
DisconnectingClients == {"A"}

RouterDisconnect == \E c \in DisconnectingClients : Disconnect(c)

\* The same handlers with fewer senders, and peers that go away.
StaleClients == {"A", "B", "D"}

StaleHandshake == \E c \in DisconnectingClients : Handshake(c)
StaleRegister == \E c \in StaleClients, t \in RegTopics : Poll(c, REGISTER, t)
StaleDeregister == \E c \in DisconnectingClients, t \in DeregTopics : Poll(c, DEREGISTER, t)
StaleMessage == \E c \in StaleClients, t \in PlainIds, p \in Payloads : Poll(c, t, p)

RouterStaleNext ==
    \/ StaleHandshake
    \/ StaleRegister
    \/ StaleDeregister
    \/ StaleMessage
    \/ RouterDisconnect

(***************************************************************************)
(* Router: a long run of frames                                            *)
(***************************************************************************)

\* Bounds of the exploration.
MaxArrivals == 103
VariedArrivals == 2

HeaderInit == arrivals = <<>>

\* An iteration of _poll, with the frame noted in the arrival history.
LongPoll(client, message_id, payload) ==
    /\ Len(arrivals) < MaxArrivals
    /\ PollBody(client, message_id, payload)
    /\ arrivals' = Append(arrivals, <<client, message_id>>)
    /\ UNCHANGED <<serverVars, proxyVars, zroVars, configVars, managerVars,
                   publisherVars, notHeaderLaterVars>>

\* Input sets of the exploration: the senders vary on the first frames and
\* around the point where the buffer is full.
LongSenders(n) ==
    IF n < VariedArrivals \/ n >= header_retention THEN {"A", "B"} ELSE {"A"}

LongMessage ==
    \E c \in LongSenders(Len(arrivals)), t \in PlainIds, p \in Payloads :
        LongPoll(c, t, p)
LongRegister ==
    /\ Len(arrivals) \in {0, header_retention}
    /\ LongPoll("C", REGISTER, "T")
LongHandshake ==
    /\ Len(arrivals) \in {1, header_retention + 1}
    /\ Handshake("C")

RouterLongNext ==
    \/ LongMessage
    \/ LongRegister
    \/ LongHandshake

(***************************************************************************)
(* Router._poll, statement by statement                                    *)
(***************************************************************************)

\* Bounds of the exploration.
MaxInbound == 4

\* Where _poll is.  phase "recv": at recv_multipart; "wild": in the loop over
\* registration[b'*'] at index i; "topic": in the loop over
\* registration[message_id] at index i.
Pos(phase, i) == [phase |-> phase, i |-> i]

StepInit ==
    /\ inbox = <<>>
    /\ rpos = Pos("recv", 0)
    /\ wire = <<>>
    /\ recv_count = 0
    /\ planned = <<>>

\* A reader that takes the next frame wherever the loop is.
CanReceiveAnywhere(pos) == TRUE

\* _poll may call recv_multipart: it is at the top of its loop.
CanReceive(pos) == pos.phase = "recv"

\* One send_multipart, recorded with the number of the inbound frame.
WireEntry(n, cli, message_id) == [seq |-> n, to |-> cli, message_id |-> message_id]

StepUnchanged ==
    UNCHANGED <<sent, delivered, stale, crashed, serverVars, proxyVars, zroVars,
                configVars, managerVars, publisherVars, notStepLaterVars>>

\* A client writes a frame to its DEALER socket; it queues at the router.
ClientSends(client, message_id, payload) ==
    /\ recv_count + Len(inbox) < MaxInbound
    /\ inbox' = Append(inbox, [client |-> client, message_id |-> message_id,
                               payload |-> payload])
    /\ UNCHANGED <<registration, message_headers, clients, packet, rpos, wire,
                   recv_count, planned>>
    /\ StepUnchanged

\* recv_multipart returns the next frame; a handshake is echoed, any other
\* frame is recorded, applied to the registration table, and the forwarding
\* loops start.
StepReceive ==
    /\ CanReceive(rpos)
    /\ inbox # <<>>
    /\ inbox' = Tail(inbox)
    /\ recv_count' = recv_count + 1
    /\ packet' = Head(inbox)
    /\ IF Head(inbox).message_id = HANDSHAKE
          THEN /\ wire' = Append(wire, WireEntry(recv_count', Head(inbox).client,
                                                 HANDSHAKE))
               /\ rpos' = Pos("recv", 0)
               /\ planned' = Append(planned, <<>>)
               /\ UNCHANGED <<registration, message_headers, clients>>
          ELSE LET client == Head(inbox).client
                   message_id == Head(inbox).message_id
                   payload == Head(inbox).payload
                   reg1 == IF message_id = REGISTER
                             THEN RegisterClient(registration, client, message_id,
                                                 payload)
                             ELSE registration
                   reg2 == IF message_id = DEREGISTER
                             THEN DeregisterClient(reg1, client, message_id, payload)
                             ELSE reg1
               IN /\ clients' = clients \cup {client}
                  /\ message_headers' =
                         AppendHeader(message_headers, client, message_id)
                  /\ registration' = reg2
                  /\ rpos' = Pos("wild", 1)
                  /\ planned' = Append(planned, Forward(reg2, Head(inbox)))
                  /\ UNCHANGED wire
    /\ StepUnchanged

\* One iteration (or the end) of a forwarding loop.
StepForward ==
    /\ rpos.phase \in {"wild", "topic"}
    /\ LET lst == IF rpos.phase = "wild" THEN registration[WILDCARD]
                                         ELSE registration[packet.message_id]
       IN IF rpos.i > Len(lst)
             THEN /\ rpos' = IF rpos.phase = "wild" THEN Pos("topic", 1)
                                                    ELSE Pos("recv", 0)
                  /\ UNCHANGED wire
             ELSE /\ rpos' = Pos(rpos.phase, rpos.i + 1)
                  /\ wire' = IF lst[rpos.i] # packet.client
                                THEN Append(wire, WireEntry(recv_count, lst[rpos.i],
                                                            packet.message_id))
                                ELSE wire
    /\ UNCHANGED <<registration, message_headers, clients, packet, inbox,
                   recv_count, planned>>
    /\ StepUnchanged

\* Input sets of the exploration.
StepSenders == {"A", "B"}
StepListeners == {"B", "C"}

StepHandshake == \E c \in StepListeners : ClientSends(c, HANDSHAKE, "")
StepRegister ==
    \E c \in StepListeners, t \in RegTopics : ClientSends(c, REGISTER, t)
StepMessage ==
    \E c \in StepSenders, t \in PlainIds, p \in Payloads : ClientSends(c, t, p)

RouterStepNext ==
    \/ StepHandshake
    \/ StepRegister
    \/ StepMessage
    \/ StepReceive
    \/ StepForward


(***************************************************************************)
(* RemoteObject: values, members of the served object                      *)
(***************************************************************************)

\* Bounds of the exploration.
MaxHandles == 2

\* A value on the wire or in an attribute.  t is the Python type:
\*   "val"  a plain serializable value, v its content
\*   "int"  an integer (an async handle), n its value
\*   "list" a list of names (get_command_list)
\*   "ZroError" a ZroError(self, v, code, inner) object; inner is the error
\*          code of the exception embedded as its message (0: none)
\*   "ZroErrorJSON" the result of ZroError.to_JSON()
\*   "function" a function object (not serializable)
\*   "str"  str(x) of a value x that could not be serialized
Val(s) == [t |-> "val", v |-> s, code |-> 0, inner |-> 0, n |-> 0]
IntVal(i) == [t |-> "int", v |-> "", code |-> 0, inner |-> 0, n |-> i]
ListVal(s) == [t |-> "list", v |-> s, code |-> 0, inner |-> 0, n |-> 0]
FnVal(s) == [t |-> "function", v |-> s, code |-> 0, inner |-> 0, n |-> 0]
ZroError(name, code, inner) ==
    [t |-> "ZroError", v |-> name, code |-> code, inner |-> inner, n |-> 0]
\* A ZroError raised (not returned) by a local call.
Raised(name, code) ==
    [t |-> "raised", v |-> name, code |-> code, inner |-> 0, n |-> 0]
NoValue == [t |-> "none", v |-> "", code |-> 0, inner |-> 0, n |-> 0]

SUCCESS == "0"
CALLABLE == "__callable__"

\* Members of the served object (self._obj_ = self, a RemoteObject subclass
\* as in the class docstring: my_attribute, my_method).
Attr(v) == [kind |-> "attr", v |-> v]
Property(v) == [kind |-> "property", v |-> v]
Method == [kind |-> "method", v |-> ""]
Absent == [kind |-> "absent", v |-> ""]

UserMethods == {"my_method", "bad_method", "get_callback"}
ManagementMethods == {"close", "set_whitelist", "set_blacklist", "run_forever",
                      "get_command_list", "get_attribute_list", "get_uptime",
                      "call_async", "get_async_result"}
PrivateMethods == {"_onclose"}
Methods == UserMethods \cup ManagementMethods \cup PrivateMethods
AbsentNames == {"nope", "_nope"}
Names == {"my_attribute", "uptime", "platform_info", "trait_names",
          "_whitelist", "_blacklist"}
             \cup Methods \cup AbsentNames

IsPrivate(name) == name \in {"_whitelist", "_blacklist", "_onclose", "_nope"}

InitMembers ==
    [name \in Names |->
        CASE name = "my_attribute" -> Attr("v0")
          [] name = "uptime" -> Property("t0")
          [] name = "platform_info" -> Property("platform")
          [] name = "trait_names" -> Attr("empty")
          [] name \in {"_whitelist", "_blacklist"} -> Attr("empty")
          [] name \in Methods -> Method
          [] OTHER -> Absent]

\* Members of a plain object bound with serve(obj): its own attribute and
\* method, and nothing of RemoteObject.
PlainMembers ==
    [name \in Names |->
        CASE name = "my_attribute" -> Attr("v0")
          [] name = "my_method" -> Method
          [] OTHER -> Absent]

\* RemoteObject._get
Get(mem, name) ==
    CASE mem[name].kind = "absent" -> ZroError(name, 1, 0)
      [] mem[name].kind = "method" -> Val(CALLABLE)
      [] OTHER -> Val(mem[name].v)

\* _set without the getattr probe: setattr creates the attribute.
SetCreates(mem, name, value) ==
    IF mem[name].kind = "property"
        THEN [members |-> mem, result |-> ZroError(name, 1, 0)]
        ELSE [members |-> [mem EXCEPT ![name] = Attr(value)],
              result |-> Val(SUCCESS)]

\* RemoteObject._set: getattr, then setattr; AttributeError (absent member, or
\* a property without a setter) gives ZroError code 1.
Set(mem, name, value) ==
    IF mem[name].kind \in {"absent", "property"}
        THEN [members |-> mem, result |-> ZroError(name, 1, 0)]
        ELSE [members |-> [mem EXCEPT ![name] = Attr(value)],
              result |-> Val(SUCCESS)]

\* get_command_list: public callables of the served object, minus
\* run_forever, set_whitelist and set_blacklist.
PublicCallables(mem) ==
    {name \in Names : mem[name].kind = "method" /\ ~IsPrivate(name)}
RemovedFromCommandList == {"run_forever", "set_whitelist", "set_blacklist"}
CommandList(mem) == PublicCallables(mem) \ RemovedFromCommandList

\* async_result_waiting: TRUE, FALSE, or the code of the ZroError raised.
AsyncResultWaiting(S, handle) ==
    IF handle \in DOMAIN S.async_results THEN [raised |-> 0, waiting |-> TRUE]
    ELSE IF handle \in SeqToSet(S.async_handle_list)
        THEN [raised |-> 0, waiting |-> FALSE]
        ELSE [raised |-> 7, waiting |-> FALSE]

Restrict(f, D) == [x \in D |-> f[x]]

\* get_async_result that never evicts the stored result.
GetAsyncResultKeep(S, handle, clear_data) ==
    LET w == AsyncResultWaiting(S, handle) IN
    IF w.raised # 0
        THEN [state |-> S, result |-> Raised("handle", w.raised)]
    ELSE IF w.waiting
        THEN [state |-> S, result |-> S.async_results[handle]]
        ELSE [state |-> S, result |-> Raised("handle", 8)]

\* get_async_result(handle, clear_data): the state after it and what it
\* returns or raises.
GetAsyncResult(S, handle, clear_data) ==
    LET w == AsyncResultWaiting(S, handle) IN
    IF w.raised # 0
        THEN [state |-> S, result |-> Raised("handle", w.raised)]
    ELSE IF w.waiting
        THEN [state |-> IF clear_data
                          THEN [S EXCEPT
                                 !.async_handle_list = RemoveFirst(@, handle),
                                 !.async_results =
                                     Restrict(@, DOMAIN @ \ {handle})]
                          ELSE S,
              result |-> S.async_results[handle]]
    ELSE IF handle \in SeqToSet(S.async_handle_list)
        THEN [state |-> S, result |-> Raised("handle", 8)]
        ELSE [state |-> S, result |-> Raised("handle", 6)]

\* A call_async that runs the callable before it returns the handle.
CallAsyncInline(S, callable_name) ==
    CASE S.members[callable_name].kind = "absent" ->
            [state |-> S, result |-> ZroError(callable_name, 2, 0)]
      [] S.members[callable_name].kind # "method" ->
            [state |-> S, result |-> ZroError(callable_name, 3, 0)]
      [] OTHER ->
            [state |-> [S EXCEPT
                          !.async_handle_list = Append(@, S.async_handle_index),
                          !.async_results =
                              [h \in DOMAIN @ \cup {S.async_handle_index} |->
                                  IF h = S.async_handle_index THEN Val("r")
                                  ELSE @[h]],
                          !.async_handle_index = @ + 1],
             result |-> IntVal(S.async_handle_index)]

\* call_async(callable_name): allocates a handle and schedules the call.
CallAsync(S, callable_name) ==
    CASE S.members[callable_name].kind = "absent" ->
            [state |-> S, result |-> ZroError(callable_name, 2, 0)]
      [] S.members[callable_name].kind # "method" ->
            [state |-> S, result |-> ZroError(callable_name, 3, 0)]
      [] OTHER ->
            [state |-> [S EXCEPT
                          !.async_handle_list = Append(@, S.async_handle_index),
                          !.timers = @ \cup {[handle |-> S.async_handle_index,
                                              name |-> callable_name]},
                          !.async_handle_index = @ + 1],
             result |-> IntVal(S.async_handle_index)]

\* What the methods of the served object return when called without error.
ReturnValue(name) ==
    CASE name = "my_method" -> Val("r")
      [] name = "get_callback" -> FnVal("callback")
      [] name = "get_uptime" -> Val("t0")
      [] OTHER -> Val("None")

(***************************************************************************)
(* RemoteObject: request frames                                            *)
(***************************************************************************)

AllKeys == {"command", "args", "callable", "kwargs"}

\* A frame received on the reply socket.
\*   enc:   "pickle" / "json": decodes with that codec;
\*          "garbage": neither codec decodes it (pickle raises UnpicklingError);
\*          "truncated": pickle.loads raises EOFError (empty or cut frame);
\*          "notbytes": an element of a decoded list that is not bytes.
\*   shape: the decoded value is a "dict", a "list" (items: its elements,
\*          frames again) or a "scalar".
\*   keys:  the keys of the decoded dict; command, callable, args as in the
\*          packet; handle and clear carry the integer and boolean arguments
\*          of get_async_result.
Frame(enc, shape, keys, command, callable, args, handle, clear, items) ==
    [enc |-> enc, shape |-> shape, keys |-> keys, command |-> command,
     callable |-> callable, args |-> args, handle |-> handle, clear |-> clear,
     items |-> items]

GetPacket(enc, name) ==
    Frame(enc, "dict", {"command", "args"}, "get", "", <<name>>, 0, TRUE, <<>>)
SetPacket(enc, name, value) ==
    Frame(enc, "dict", {"command", "args"}, "set", "", <<name, value>>, 0, TRUE, <<>>)
RunPacket(enc, name, args) ==
    Frame(enc, "dict", AllKeys, "run", name, args, 0, TRUE, <<>>)
GetAsyncResultPacket(enc, handle, clear) ==
    Frame(enc, "dict", AllKeys, "run", "get_async_result", <<>>, handle, clear, <<>>)
NoFrame == Frame("", "", {}, "", "", <<>>, 0, TRUE, <<>>)

NoEvent == [src |-> "none", frame |-> NoFrame]

(***************************************************************************)
(* RemoteObject: dispatch                                                  *)
(***************************************************************************)

Escape(S, exc) == [S EXCEPT !.escaped = exc]

\* The serialization a send function applies: send_json of the socket, or
\* pickle (the socket's send_pyobj and __send_pyobj).
Codec(func) == IF func = "send_json" THEN "json" ELSE "pickle"

\* A send on the REP socket: allowed once per received request.
Send(S, value) ==
    IF S.rep_state = "send"
        THEN [S EXCEPT !.replies = Append(@, value),
                       !.codecs = Append(@, Codec(S.send_func)),
                       !.rep_state = "recv"]
        ELSE Escape(S, "ZMQError")

\* set_reply_ip: the reply socket is closed and replaced by a fresh one.
SetReplyIp(S) == [S EXCEPT !.rep_state = "recv", !.send_func = "sock_send_pyobj"]

\* The body of a method of the served object, called with the arguments of f.
Call(S, name, f) ==
    LET S1 == [S EXCEPT !.ran = Append(@, name)] IN
    CASE name = "my_method" ->
            IF f.args # <<>>
                THEN [state |-> S1, result |-> ZroError(name, 5, 0)]
                ELSE [state |-> S1, result |-> ReturnValue(name)]
      [] name = "bad_method" ->
            [state |-> S1, result |-> ZroError(name, 4, 0)]
      [] name = "close" ->
            [state |-> [S1 EXCEPT !.ran = Append(@, "_onclose"),
                                  !.closed = TRUE,
                                  !.escaped = "SystemExit"],
             result |-> NoValue]
      [] name \in {"set_whitelist", "set_blacklist"} ->
            [state |-> SetReplyIp(
                         [S1 EXCEPT !.members[IF name = "set_whitelist"
                                                THEN "_whitelist"
                                                ELSE "_blacklist"] =
                             Attr(IF f.args = <<>> THEN "empty" ELSE f.args[1])]),
             result |-> Val("None")]
      [] name = "get_command_list" ->
            IF RemovedFromCommandList \subseteq PublicCallables(S1.members)
                THEN [state |-> S1, result |-> ListVal("command_list")]
                ELSE [state |-> S1, result |-> ZroError(name, 4, 0)]
      [] name = "get_attribute_list" ->
            IF S1.members["trait_names"].kind \in {"attr", "property"}
                THEN [state |-> S1, result |-> ListVal("attribute_list")]
                ELSE [state |-> S1, result |-> ZroError(name, 4, 0)]
      [] name = "call_async" ->
            IF f.args = <<>>
                THEN [state |-> S1, result |-> ZroError(name, 5, 0)]
                ELSE CallAsync(S1, f.args[1])
      [] name = "get_async_result" ->
            LET r == GetAsyncResult(S1, f.handle, f.clear) IN
            IF r.result.t = "raised"
                THEN [state |-> r.state,
                      result |-> ZroError(name, 4, r.result.code)]
                ELSE r
      [] OTHER -> [state |-> S1, result |-> ReturnValue(name)]

\* RemoteObject._run
Run(S, name, f) ==
    CASE S.members[name].kind = "absent" ->
            [state |-> S, result |-> ZroError(name, 2, 0)]
      [] S.members[name].kind # "method" ->
            [state |-> S, result |-> ZroError(name, 3, 0)]
      [] OTHER -> Call(S, name, f)

\* ZroError.to_JSON()
ToJSON(result) == [result EXCEPT !.t = "ZroErrorJSON"]

\* The exception raised when the serializer is given the value, or "ok".
Serialize(func, value) ==
    IF func = "send_json"
        THEN IF value.t \in {"function", "ZroError"} THEN "TypeError" ELSE "ok"
        ELSE IF value.t = "function" THEN "PicklingError" ELSE "ok"

\* The final try block of _handle_request: send the result.
Reply(S, result) ==
    LET out == IF result.t = "ZroError" /\ S.send_func # "send_pyobj"
                 THEN ToJSON(result) ELSE result
        exc == Serialize(S.send_func, out)
    IN CASE exc = "ok" -> Send(S, out)
         [] exc = "TypeError" -> Send(S, [out EXCEPT !.t = "str"])
         [] OTHER -> Escape(S, exc)

\* The else branch of _handle_request: a decoded request.
Dispatch(S, f) ==
    CASE f.shape # "dict" -> Escape(S, "TypeError")
      [] f.shape = "dict" /\ ~({"command", "args"} \subseteq f.keys) ->
            Escape(S, "KeyError")
      [] f.shape = "dict" /\ {"command", "args"} \subseteq f.keys ->
            IF f.command \notin {"set", "get", "run"}
                THEN Reply(S, ZroError(f.command, 2, 0))
            ELSE IF f.command = "run"
                THEN IF ~({"callable", "kwargs"} \subseteq f.keys)
                        THEN Escape(S, "KeyError")
                     ELSE IF f.callable \in {"close", "set_reply_ip"}
                        THEN LET S1 == Send(S, Val(SUCCESS)) IN
                             IF S1.escaped # "" THEN S1
                             ELSE Run(S1, f.callable, f).state
                     ELSE LET r == Run(S, f.callable, f) IN
                          IF r.state.escaped # "" THEN r.state
                          ELSE Reply(r.state, r.result)
            ELSE IF f.command = "get"
                THEN IF Len(f.args) # 1 THEN Escape(S, "TypeError")
                     ELSE Reply(S, Get(S.members, f.args[1]))
            ELSE IF Len(f.args) # 2 THEN Escape(S, "TypeError")
                 ELSE LET r == Set(S.members, f.args[1], f.args[2]) IN
                      Reply([S EXCEPT !.members = r.members], r.result)

RECURSIVE HandleList(_, _)
RECURSIVE HandleItem(_, _)

\* __decode_request, then _handle_request(data), with the ValueError handler
\* of the loop in _handle_request.
HandleItem(S, f) ==
    CASE f.enc = "pickle" ->
            LET S1 == [S EXCEPT !.send_func = "send_pyobj"] IN
            IF f.shape = "list" THEN HandleList(S1, f.items) ELSE Dispatch(S1, f)
      [] f.enc = "json" ->
            LET S1 == [S EXCEPT !.send_func = "send_json"] IN
            IF f.shape = "list" THEN HandleList(S1, f.items) ELSE Dispatch(S1, f)
      [] f.enc = "garbage" -> Send(S, Val("Failed to decode request"))
      [] f.enc = "truncated" -> Escape(S, "EOFError")
      [] OTHER -> Escape(S, "TypeError")

\* The list branch of _handle_request: for req in request: ...
HandleList(S, frames) ==
    IF frames = <<>> \/ S.escaped # "" THEN S
    ELSE HandleList(HandleItem(S, Head(frames)), Tail(frames))

\* _handle_request as the stream calls it: with the list of received frames.
HandleRequest(S, f) == HandleList(S, <<f>>)

(***************************************************************************)
(* RemoteObject: state machine                                             *)
(***************************************************************************)

\* The server's fields as one record, threaded through the dispatch.
Srv ==
    [members |-> members, async_results |-> async_results,
     async_handle_index |-> async_handle_index,
     async_handle_list |-> async_handle_list, timers |-> timers,
     send_func |-> send_func, closed |-> closed, rep_state |-> rep_state,
     replies |-> replies, codecs |-> codecs, escaped |-> escaped, ran |-> ran]

SetSrv(S) ==
    /\ members' = S.members
    /\ async_results' = S.async_results
    /\ async_handle_index' = S.async_handle_index
    /\ async_handle_list' = S.async_handle_list
    /\ timers' = S.timers
    /\ send_func' = S.send_func
    /\ closed' = S.closed
    /\ rep_state' = S.rep_state
    /\ replies' = S.replies
    /\ codecs' = S.codecs
    /\ escaped' = S.escaped
    /\ ran' = S.ran

\* RemoteObject.__init__ but for the served object.
ServerInitRest ==
    /\ async_results = [h \in {} |-> NoValue]
    /\ async_handle_index = 0
    /\ async_handle_list = <<>>
    /\ timers = {}
    /\ send_func = "sock_send_pyobj"
    /\ closed = FALSE
    /\ rep_state = "recv"
    /\ event = NoEvent
    /\ replies = <<>>
    /\ codecs = <<>>
    /\ escaped = ""
    /\ ran = <<>>
    /\ ret = NoValue

\* RemoteObject.__init__: the device serves itself.
ServerInit ==
    /\ members = InitMembers
    /\ ServerInitRest

\* replies, escaped and ran describe the handling of the last request only.
Observe(S) ==
    [S EXCEPT !.replies = <<>>, !.codecs = <<>>, !.escaped = "", !.ran = <<>>]

\* True when handling f may call call_async.
SchedulesCall(f) ==
    \/ f.shape = "dict" /\ f.callable = "call_async"
    \/ \E i \in 1..Len(f.items) : f.items[i].callable = "call_async"

\* The stream's on_recv callback: one request arrives and is handled.
Request(f) ==
    /\ rep_state = "recv"
    /\ ~closed
    /\ SchedulesCall(f) => async_handle_index < MaxHandles
    /\ event' = [src |-> "remote", frame |-> f]
    /\ SetSrv(HandleRequest([Observe(Srv) EXCEPT !.rep_state = "send"], f))
    /\ ret' = NoValue
    /\ UNCHANGED notServerVars

\* The device's own code calls self.call_async(name).
LocalCallAsync(name) ==
    /\ ~closed
    /\ async_handle_index < MaxHandles
    /\ event' = [src |-> "local", frame |-> RunPacket("", "call_async", <<name>>)]
    /\ LET r == CallAsync(Observe(Srv), name) IN
        /\ SetSrv(r.state)
        /\ ret' = r.result
    /\ UNCHANGED notServerVars

\* The device's own code calls self.get_async_result(handle, clear_data).
LocalGetAsyncResult(handle, clear_data) ==
    /\ ~closed
    /\ event' = [src |-> "local",
                 frame |-> GetAsyncResultPacket("", handle, clear_data)]
    /\ LET r == GetAsyncResult(Observe(Srv), handle, clear_data) IN
        /\ SetSrv(r.state)
        /\ ret' = r.result
    /\ UNCHANGED notServerVars

\* A destination of a callback: the address of a device and one of its methods.
Dest(addr, method) == [addr |-> addr, method |-> method]

\* _send_async_result: p = Proxy(addr); p.method(result) for each destination
\* in turn.  The call to a destination that is down raises, which ends the loop.
RECURSIVE SendAsyncResult(_, _, _)
SendAsyncResult(dests, down, result) ==
    IF dests = <<>> THEN [sent |-> <<>>, raised |-> FALSE]
    ELSE IF Head(dests).addr \in down
        THEN [sent |-> <<>>, raised |-> TRUE]
        ELSE LET r == SendAsyncResult(Tail(dests), down, result) IN
             [sent |-> <<[dest |-> Head(dests), result |-> result]>> \o r.sent,
              raised |-> r.raised]

\* A delivery loop that catches the failure of a destination and goes on.
RECURSIVE SendAsyncResultEach(_, _, _)
SendAsyncResultEach(dests, down, result) ==
    IF dests = <<>> THEN [sent |-> <<>>, raised |-> FALSE]
    ELSE LET r == SendAsyncResultEach(Tail(dests), down, result) IN
         IF Head(dests).addr \in down
            THEN [sent |-> r.sent, raised |-> TRUE]
            ELSE [sent |-> <<[dest |-> Head(dests), result |-> result]>> \o r.sent,
                  raised |-> r.raised]

\* The part of _call_async after the result is stored: nothing when to_call
\* raised; otherwise the result goes to the destinations registered for the
\* method, and a failure is logged as ZroError code 9.
AfterStore(name, callbacks, down) ==
    IF name = "bad_method" THEN [sent |-> <<>>, logged |-> 4]
    ELSE LET r == SendAsyncResult(callbacks[name], down, ReturnValue(name)) IN
         [sent |-> r.sent, logged |-> IF r.raised THEN 9 ELSE 0]

\* _call_async: a scheduled call runs and its result (or the ZroError made of
\* the exception it raised) is stored under its handle; the result of a call
\* that returned is then sent to the registered destinations.
CallAsyncTimer(tm) ==
    /\ tm \in timers
    /\ ~closed
    /\ event' = [src |-> "timer",
                 frame |-> GetAsyncResultPacket("", tm.handle, TRUE)]
    /\ timers' = timers \ {tm}
    /\ async_results' =
           [h \in DOMAIN async_results \cup {tm.handle} |->
               IF h = tm.handle
                   THEN IF tm.name = "bad_method"
                           THEN ZroError(tm.name, 4, 0)
                           ELSE ReturnValue(tm.name)
                   ELSE async_results[h]]
    /\ replies' = <<>>
    /\ codecs' = <<>>
    /\ escaped' = ""
    /\ ran' = <<>>
    /\ ret' = NoValue
    /\ cb_sent' = AfterStore(tm.name, async_callbacks, dest_down).sent
    /\ cb_logged' = AfterStore(tm.name, async_callbacks, dest_down).logged
    /\ UNCHANGED <<members, async_handle_index, async_handle_list, send_func,
                   closed, rep_state>>
    /\ UNCHANGED <<earlierVars, notAsyncLaterVars, async_callbacks, dest_down>>

\* Input sets of the exploration.
Encs == {"pickle", "json"}
GetNames == {"my_attribute", "my_method", "_whitelist", "_onclose", "nope", "uptime"}
SetNames == {"my_attribute", "_whitelist", "nope", "_nope", "uptime"}
SetValues == {"v1"}
RunNames == {"my_method", "bad_method", "get_callback", "_onclose", "close",
             "set_whitelist", "get_command_list", "nope", "my_attribute"}
AsyncNames == {"my_method", "bad_method", "nope", "my_attribute"}
Handles == 0..MaxHandles

GetRequests == {GetPacket(e, name) : e \in Encs, name \in GetNames}
SetRequests == {SetPacket(e, name, v) : e \in Encs, name \in SetNames, v \in SetValues}
RunRequests ==
    {RunPacket(e, name, IF name \in {"set_whitelist", "set_blacklist"}
                          THEN <<"v1">> ELSE <<>>) : e \in Encs, name \in RunNames}
AsyncRequests ==
    {RunPacket("pickle", "call_async", <<name>>) : name \in AsyncNames}
        \cup {GetAsyncResultPacket("pickle", h, c) : h \in Handles, c \in BOOLEAN}
\* Frames that are not well-formed command packets.
MalformedRequests ==
    {Frame(e, "", {}, "", "", <<>>, 0, TRUE, <<>>) : e \in {"garbage", "truncated"}}
    \cup {Frame(e, "scalar", {}, "", "", <<>>, 0, TRUE, <<>>) : e \in Encs}
    \cup {Frame("pickle", "list", {}, "", "", <<>>, 0, TRUE, items) :
            items \in {<<>>,
                       <<Frame("notbytes", "", {}, "", "", <<>>, 0, TRUE, <<>>)>>,
                       <<GetPacket("pickle", "my_attribute")>>,
                       <<GetPacket("pickle", "my_attribute"),
                         GetPacket("pickle", "my_attribute")>>}}
    \cup {Frame("pickle", "dict", keys, "run", "my_method", <<>>, 0, TRUE, <<>>) :
            keys \in {AllKeys \ {"command"}, AllKeys \ {"args"},
                      AllKeys \ {"callable"}, AllKeys \ {"kwargs"}}}
    \cup {Frame(e, "dict", AllKeys, "call", "my_method", <<>>, 0, TRUE, <<>>) :
            e \in Encs}
    \cup {Frame("pickle", "dict", {"command", "args"}, "get", "", <<>>, 0, TRUE, <<>>)}

ServerGet == \E f \in GetRequests : Request(f)
ServerSet == \E f \in SetRequests : Request(f)
ServerRun == \E f \in RunRequests : Request(f)
ServerAsync == \E f \in AsyncRequests : Request(f)
ServerMalformed == \E f \in MalformedRequests : Request(f)
ServerLocalCallAsync == \E name \in AsyncNames : LocalCallAsync(name)
ServerLocalGetAsyncResult ==
    \E h \in Handles, c \in BOOLEAN : LocalGetAsyncResult(h, c)
ServerTimer == \E tm \in timers : CallAsyncTimer(tm)

ServerNext ==
    \/ ServerGet
    \/ ServerSet
    \/ ServerRun
    \/ ServerAsync
    \/ ServerMalformed
    \/ ServerLocalCallAsync
    \/ ServerLocalGetAsyncResult
    \/ ServerTimer

\* serve(obj): a RemoteObject whose _obj_ is replaced by obj before it runs;
\* RemoteObject().run_forever() keeps _obj_ = self.
ServeTargets == {InitMembers, PlainMembers}
ServeInit ==
    /\ members \in ServeTargets
    /\ ServerInitRest

\* The management operations, as a proxy invokes them: platform_info is a
\* property and is read, the others are methods and are run.
ManagementOps == {"get_command_list", "get_attribute_list", "get_uptime",
                  "platform_info", "close"}
ManagementRequests ==
    {IF name = "platform_info" THEN GetPacket(e, name)
                               ELSE RunPacket(e, name, <<>>) :
        e \in Encs, name \in ManagementOps}

ServeManagement == \E f \in ManagementRequests : Request(f)

ServeNext ==
    \/ ServeManagement
    \/ ServerGet
    \/ ServerSet
    \/ ServerRun

(***************************************************************************)
(* DeviceProxy                                                             *)
(***************************************************************************)

\* Bounds of the exploration.
MaxSockets == 2

\* A proxy operation and how it ended.
\*   kind:    "get" (__getattr__), "set" (__setattr__), "call" (_call through
\*            a call-forwarder obtained for name)
\*   outcome: "value" (returned result), "forwarder" (returned self._call),
\*            "ok" (returned None), "ZroError" (raised), "Again" (the receive
\*            timed out), "ZMQError" (the send was refused by the socket)
\*   ran:     the callable named in the RUN packet that was sent ("" if none)
\*   served:  the server was able to take the request and answer it
\*   rebuilt: the request socket was closed and built again during the operation
Op(kind, name, value, outcome, result, r, served, rebuilt) ==
    [kind |-> kind, name |-> name, value |-> value, outcome |-> outcome,
     result |-> result, ran |-> r, served |-> served, rebuilt |-> rebuilt]
NoOp == Op("", "", "", "", NoValue, "", FALSE, FALSE)

ProxySerializations == {"pickle", "json"}

ProxyInit ==
    /\ serialization \in ProxySerializations
    /\ req_state = "ready"
    /\ req_socket = 0
    /\ to_call = ""
    /\ held = {}
    /\ responsive = TRUE
    /\ pop = NoOp
    /\ pprev = NoOp

\* The server can take a request now and answer it.
Serving == responsive /\ rep_state = "recv" /\ ~closed

\* The server's side of a round trip: the request is handled if the server
\* is serving; otherwise it is lost and the server keeps its state.
Served(f) ==
    IF Serving
        THEN HandleRequest([Observe(Srv) EXCEPT !.rep_state = "send"], f)
        ELSE Srv

\* __getattr__: what a reply becomes.
GetOutcome(name, S) ==
    LET r == S.replies[1] IN
    IF r.t = "ZroError"
        THEN Op("get", name, "", "ZroError", r, "", TRUE, FALSE)
    ELSE IF r.t = "val" /\ r.v \in {"callable", CALLABLE}
        THEN Op("get", name, "", "forwarder", NoValue, "", TRUE, FALSE)
        ELSE Op("get", name, "", "value", r, "", TRUE, FALSE)

\* __setattr__: what a reply becomes.
SetOutcome(name, value, S) ==
    LET r == S.replies[1] IN
    IF r = Val(SUCCESS)
        THEN Op("set", name, value, "ok", NoValue, "", TRUE, FALSE)
        ELSE Op("set", name, value, "ZroError", r, "", TRUE, FALSE)

\* _call: what a reply becomes.
CallOutcome(name, S) ==
    LET r == S.replies[1] IN
    IF r.t = "ZroError"
        THEN Op("call", name, "", "ZroError", r, to_call, TRUE, FALSE)
        ELSE Op("call", name, "", "value", r, to_call, TRUE, FALSE)

\* A request has been sent: the server handles it (or not) and the proxy
\* receives the reply or times out.  done is the operation when a reply came,
\* lost the operation when none did.
RoundTrip(f, S, done, lost, rebuilt) ==
    /\ SetSrv(S)
    /\ event' = IF Serving THEN [src |-> "remote", frame |-> f] ELSE event
    /\ ret' = IF Serving THEN NoValue ELSE ret
    /\ IF Serving /\ S.replies # <<>>
          THEN /\ req_state' = "ready"
               /\ pop' = [done EXCEPT !.rebuilt = rebuilt]
          ELSE /\ req_state' = "awaiting"
               /\ pop' = [lost EXCEPT !.served = Serving, !.rebuilt = rebuilt]
    /\ pprev' = pop

\* DeviceProxy.__getattr__(name).  The packet goes through _send_packet: a
\* send refused by the socket closes it, builds a new one and sends again.
Getattr(name) ==
    LET f == GetPacket(serialization, name)
        S == Served(f)
        rebuilt == req_state = "awaiting"
    IN /\ rebuilt => req_socket < MaxSockets
       /\ req_socket' = IF rebuilt THEN req_socket + 1 ELSE req_socket
       /\ RoundTrip(f, S, GetOutcome(name, S),
                    Op("get", name, "", "Again", NoValue, "", FALSE, FALSE),
                    rebuilt)
       /\ IF Serving /\ S.replies # <<>> /\ GetOutcome(name, S).outcome = "forwarder"
             THEN to_call' = name /\ held' = held \cup {name}
             ELSE UNCHANGED <<to_call, held>>
       /\ UNCHANGED <<serialization, responsive, routerVars, extVars>>

\* DeviceProxy.__setattr__(name, value), also through _send_packet.
Setattr(name, value) ==
    LET f == SetPacket(serialization, name, value)
        S == Served(f)
        rebuilt == req_state = "awaiting"
    IN /\ rebuilt => req_socket < MaxSockets
       /\ req_socket' = IF rebuilt THEN req_socket + 1 ELSE req_socket
       /\ RoundTrip(f, S, SetOutcome(name, value, S),
                    Op("set", name, value, "Again", NoValue, "", FALSE, FALSE),
                    rebuilt)
       /\ UNCHANGED <<to_call, held, serialization, responsive, routerVars, extVars>>

\* DeviceProxy._call(), invoked through the call-forwarder obtained for name.
\* The packet is sent with the socket's send directly: a socket that still
\* awaits a reply refuses it and the ZMQError reaches the caller.
CallForwarder(name) ==
    LET f == RunPacket(serialization, to_call, <<>>)
        S == Served(f)
    IN /\ name \in held
       /\ IF req_state = "awaiting"
             THEN /\ pop' = Op("call", name, "", "ZMQError", NoValue, "",
                               Serving, FALSE)
                  /\ pprev' = pop
                  /\ UNCHANGED <<serverVars, req_state>>
             ELSE RoundTrip(f, S, CallOutcome(name, S),
                            Op("call", name, "", "Again", NoValue, to_call,
                               FALSE, FALSE),
                            FALSE)
       /\ UNCHANGED <<req_socket, to_call, held, serialization, responsive,
                      routerVars, extVars>>

\* The server process stops answering (busy or down) and comes back.
ServerStops ==
    /\ responsive
    /\ responsive' = FALSE
    /\ UNCHANGED <<serialization, req_state, req_socket, to_call, held, pop, pprev,
                   serverVars, routerVars, extVars>>

ServerResumes ==
    /\ ~responsive
    /\ responsive' = TRUE
    /\ UNCHANGED <<serialization, req_state, req_socket, to_call, held, pop, pprev,
                   serverVars, routerVars, extVars>>

\* Input sets of the exploration.
ProxyGetNames == {"my_attribute", "my_method", "bad_method", "nope"}
ProxySetNames == {"my_attribute", "nope"}
ProxySetValues == {"v1", "callable"}

ProxyGetattr == \E name \in ProxyGetNames : Getattr(name)
ProxySetattr == \E name \in ProxySetNames, v \in ProxySetValues : Setattr(name, v)
ProxyCall == \E name \in held : CallForwarder(name)

ProxyNext ==
    \/ ProxyGetattr
    \/ ProxySetattr
    \/ ProxyCall
    \/ ServerStops
    \/ ServerResumes

(***************************************************************************)
(* RemoteObjectService and ZROProxy (ZRO.py)                               *)
(***************************************************************************)

\* More Python values: None is NoValue, a bool has t = "bool" and n in 0..1,
\* a tuple has t = "tuple".
BoolVal(b) == [t |-> "bool", v |-> "", code |-> 0, inner |-> 0,
               n |-> IF b THEN 1 ELSE 0]
TupleVal(s) == [t |-> "tuple", v |-> s, code |-> 0, inner |-> 0, n |-> 0]

\* Python truth value of a value.
Truthy(x) ==
    CASE x.t = "none" -> FALSE
      [] x.t \in {"int", "bool"} -> x.n # 0
      [] x.t \in {"val", "list", "tuple"} -> x.v # ""
      [] OTHER -> TRUE

\* yaml.safe_dump / yaml.dump of a value and yaml.load of the document: a
\* tuple is written as a sequence and read back as a list.
YamlDump(x) == [doc |-> IF x.t = "tuple" THEN ListVal(x.v) ELSE x]
YamlLoad(d) == d.doc

\* Members of the served object self._client.
ZAttr(x) == [kind |-> "attr", v |-> x]
ZMethod == [kind |-> "method", v |-> NoValue]
ZRaising == [kind |-> "raising", v |-> NoValue]
ZAbsent == [kind |-> "absent", v |-> NoValue]

ZNames == {"x", "m", "boom", "nope"}

ZInitMembers ==
    [name \in ZNames |->
        CASE name = "x" -> ZAttr(Val("v0"))
          [] name = "m" -> ZMethod
          [] name = "boom" -> ZRaising
          [] OTHER -> ZAbsent]

\* A remote_service_request.
ZRequest(type, target, args) == [type |-> type, target |-> target, args |-> args]

\* Outcome of the try block of _process_command: the result, whether the
\* target raised, and the members afterwards.
ZExecute(mem, cmd) ==
    LET m == mem[cmd.target]
        a == YamlLoad(cmd.args)
        args == IF Truthy(a) THEN a ELSE Val("")
    IN CASE cmd.type = "RUN" ->
               IF m.kind = "method"
                   THEN [result |-> Val("r"), raised |-> FALSE, members |-> mem]
                   ELSE [result |-> NoValue, raised |-> TRUE, members |-> mem]
         [] cmd.type = "SET" ->
               [result |-> NoValue, raised |-> FALSE,
                members |-> [mem EXCEPT ![cmd.target] = ZAttr(args)]]
         [] cmd.type = "GET" ->
               [result |-> IF m.kind = "attr" THEN m.v ELSE FnVal(cmd.target),
                raised |-> FALSE, members |-> mem]
         [] cmd.type = "CALLABLE" ->
               [result |-> BoolVal(m.kind # "attr"), raised |-> FALSE,
                members |-> mem]
         [] OTHER -> [result |-> NoValue, raised |-> FALSE, members |-> mem]

\* RemoteObjectService._reply for each result in turn: a result yaml cannot
\* dump is dropped; the REP socket sends one reply, a second send raises
\* ZMQError, which nothing catches.
RECURSIVE ZReplies(_, _)
ZReplies(results, sofar) ==
    IF results = <<>> THEN [replies |-> sofar, died |-> FALSE]
    ELSE IF Head(results).t = "function" THEN ZReplies(Tail(results), sofar)
    ELSE IF sofar # <<>> THEN [replies |-> sofar, died |-> TRUE]
    ELSE ZReplies(Tail(results), <<YamlDump(Head(results))>>)

\* RemoteObjectService._process_command
ZProcessCommand(mem, cmd) ==
    LET e == ZExecute(mem, cmd)
        sent_ == IF e.raised
                    THEN ZReplies(<<Val("error in command"), e.result>>, <<>>)
                    ELSE ZReplies(<<e.result>>, <<>>)
    IN CASE cmd.type = "PLATFORM_INFO" ->
               [members |-> mem, replies |-> <<[doc |-> Val("platform_info")]>>,
                died |-> FALSE]
         [] mem[cmd.target].kind = "absent" ->
               [members |-> mem,
                replies |-> <<YamlDump(Val("No attribute on client"))>>,
                died |-> FALSE]
         [] OTHER ->
               [members |-> e.members, replies |-> sent_.replies,
                died |-> sent_.died]

\* A ZROProxy operation and how it ended.
\*   kind:     "get" (__getattr__), "set" (__setattr__), "call" (remote_call)
\*   outcome:  "returned" (result is the value returned, NoValue for None),
\*             "forwarder" (returned self.remote_call), "raised"
\*   timedout: a receive of this operation ended with zmq.error.Again
ZOp(kind, name, value, outcome, result, timedout) ==
    [kind |-> kind, name |-> name, value |-> value, outcome |-> outcome,
     result |-> result, timedout |-> timedout]
ZNoOp == ZOp("", "", NoValue, "", NoValue, FALSE)

\* ZROProxy.__init__ and the service it talks to.
ZroInit ==
    /\ zmembers = ZInitMembers
    /\ zalive = TRUE
    /\ zresponsive = TRUE
    /\ zreq_state = "ready"
    /\ z_to_call = ""
    /\ zheld = FALSE
    /\ zop = ZNoOp
    /\ zprev = ZNoOp

\* ZROProxy.send / receive against the service: the reply, or None after a
\* timeout.  A request sent while the service is not polling is lost.
ZSend(mem, alive, cmd) ==
    IF zresponsive /\ alive
        THEN LET p == ZProcessCommand(mem, cmd)
             IN [members |-> p.members, alive |-> ~p.died,
                 timedout |-> p.replies = <<>>,
                 reply |-> IF p.replies = <<>> THEN NoValue
                           ELSE YamlLoad(p.replies[1])]
        ELSE [members |-> mem, alive |-> alive, timedout |-> TRUE,
              reply |-> NoValue]

\* ZROProxy.receive leaves a usable socket: after a reply the REQ socket is
\* ready again, after a timeout setup_socket has replaced it.
ZAfterReceive == "ready"

\* ZROProxy.__getattr__(name): a callable check, then either the forwarder
\* or a remote_get.
ZGetattr(name) ==
    LET r1 == ZSend(zmembers, zalive, ZRequest("CALLABLE", name, YamlDump(Val(""))))
        r2 == ZSend(r1.members, r1.alive, ZRequest("GET", name, YamlDump(Val(""))))
    IN /\ zreq_state = "ready"
       /\ z_to_call' = name
       /\ IF r1.timedout
             THEN /\ zop' = ZOp("get", name, NoValue, "returned", NoValue, TRUE)
                  /\ zmembers' = r1.members /\ zalive' = r1.alive
                  /\ zheld' = zheld
          ELSE IF Truthy(r1.reply)
             THEN /\ zop' = ZOp("get", name, NoValue, "forwarder", NoValue, FALSE)
                  /\ zmembers' = r1.members /\ zalive' = r1.alive
                  /\ zheld' = TRUE
             ELSE /\ zop' = ZOp("get", name, NoValue, "returned", r2.reply,
                                r2.timedout)
                  /\ zmembers' = r2.members /\ zalive' = r2.alive
                  /\ zheld' = zheld
       /\ zreq_state' = ZAfterReceive
       /\ zprev' = zop
       /\ UNCHANGED <<zresponsive, notZroVars>>

\* ZROProxy.__setattr__(name, value) -> remote_set
ZSetattr(name, value) ==
    LET r == ZSend(zmembers, zalive, ZRequest("SET", name, YamlDump(value)))
    IN /\ zreq_state = "ready"
       /\ zop' = ZOp("set", name, value, "returned", NoValue, r.timedout)
       /\ zmembers' = r.members /\ zalive' = r.alive
       /\ zreq_state' = ZAfterReceive
       /\ zprev' = zop
       /\ UNCHANGED <<z_to_call, zheld, zresponsive, notZroVars>>

\* ZROProxy.remote_call(), the forwarder returned by a read: runs __to_call.
ZRemoteCall ==
    LET r == ZSend(zmembers, zalive,
                   ZRequest("RUN", z_to_call, YamlDump(TupleVal(""))))
    IN /\ zheld
       /\ zreq_state = "ready"
       /\ zop' = ZOp("call", z_to_call, NoValue, "returned", r.reply, r.timedout)
       /\ zmembers' = r.members /\ zalive' = r.alive
       /\ zreq_state' = ZAfterReceive
       /\ zprev' = zop
       /\ UNCHANGED <<z_to_call, zheld, zresponsive, notZroVars>>

\* The service process stops polling (busy or down) and comes back.
ZServiceStops ==
    /\ zresponsive
    /\ zresponsive' = FALSE
    /\ UNCHANGED <<zmembers, zalive, zreq_state, z_to_call, zheld, zop, zprev,
                   notZroVars>>

ZServiceResumes ==
    /\ ~zresponsive
    /\ zresponsive' = TRUE
    /\ UNCHANGED <<zmembers, zalive, zreq_state, z_to_call, zheld, zop, zprev,
                   notZroVars>>

\* Input sets of the exploration.
ZSetNames == {"x", "nope"}
ZSetValues == {Val("v1"), Val(""), IntVal(0), IntVal(1), BoolVal(FALSE), NoValue}

ZroGetattr == \E name \in ZNames : ZGetattr(name)
ZroSetattr == \E name \in ZSetNames, v \in ZSetValues : ZSetattr(name, v)

ZroNext ==
    \/ ZroGetattr
    \/ ZroSetattr
    \/ ZRemoteCall
    \/ ZServiceStops
    \/ ZServiceResumes

(***************************************************************************)
(* ConfigFile (config.py)                                                  *)
(***************************************************************************)

\* None as a port.
NoPort == 0

\* str.lower() on the names of the exploration.
Lower(name) == IF name = "Stage" THEN "stage" ELSE name

\* An entry of config['devices'].
Device(name, ip, rep_port, pub_port, push_port, pull_port) ==
    [name |-> name, ip |-> ip, rep_port |-> rep_port, pub_port |-> pub_port,
     push_port |-> push_port, pull_port |-> pull_port]
NoDevice == Device("", "", NoPort, NoPort, NoPort, NoPort)

\* A ConfigFile operation and how it ended: outcome is "ok" or the exception.
CfgOp(kind, name, dev, outcome) ==
    [kind |-> kind, name |-> name, dev |-> dev, outcome |-> outcome]
NoCfgOp == CfgOp("", "", NoDevice, "")

\* ConfigFile.__init__ on a path that does not exist: EMPTY_CONFIG.
ConfigInit ==
    /\ devices = <<>>
    /\ cfg_op = NoCfgOp

\* The conflict loop without the comparison of reply ports.
RECURSIVE AddDeviceCheckNoRep(_, _)
AddDeviceCheckNoRep(devs, d) ==
    IF devs = <<>> THEN "ok"
    ELSE LET dev == Head(devs) IN
         IF Lower(d.name) = Lower(dev.name) THEN "KeyError"
         ELSE IF /\ d.ip = dev.ip
                 /\ \/ d.pub_port # NoPort /\ d.pub_port = dev.pub_port
                    \/ d.push_port # NoPort /\ d.push_port = dev.push_port
                    \/ d.pull_port # NoPort /\ d.pull_port = dev.pull_port
            THEN "ValueError"
         ELSE AddDeviceCheckNoRep(Tail(devs), d)

\* The conflict loop of add_device: the exception it raises, or "ok".
RECURSIVE AddDeviceCheck(_, _)
AddDeviceCheck(devs, d) ==
    IF devs = <<>> THEN "ok"
    ELSE LET dev == Head(devs) IN
         IF Lower(d.name) = Lower(dev.name) THEN "KeyError"
         ELSE IF d.ip = dev.ip
            THEN IF d.pub_port # NoPort /\ d.pub_port = dev.pub_port
                    THEN "ValueError"
                 ELSE IF d.rep_port = dev.rep_port THEN "ValueError"
                 ELSE IF d.push_port # NoPort /\ d.push_port = dev.push_port
                    THEN "ValueError"
                 ELSE IF d.pull_port # NoPort /\ d.pull_port = dev.pull_port
                    THEN "ValueError"
                 ELSE AddDeviceCheck(Tail(devs), d)
         ELSE AddDeviceCheck(Tail(devs), d)

\* ConfigFile.add_device
AddDevice(d) ==
    LET outcome == AddDeviceCheck(devices, d) IN
    /\ devices' = IF outcome = "ok" THEN Append(devices, d) ELSE devices
    /\ cfg_op' = CfgOp("add", d.name, d, outcome)
    /\ UNCHANGED notConfigVars

\* The index of the first entry with that name ignoring case, 0 if none.
RECURSIVE FindDevice(_, _, _)
FindDevice(devs, name, i) ==
    IF i > Len(devs) THEN 0
    ELSE IF Lower(name) = Lower(devs[i].name) THEN i
    ELSE FindDevice(devs, name, i + 1)

\* list.pop(i)
Pop(s, i) == [j \in 1..(Len(s) - 1) |-> IF j < i THEN s[j] ELSE s[j + 1]]

\* ConfigFile.remove_device
RemoveDevice(name) ==
    LET i == FindDevice(devices, name, 1) IN
    /\ devices' = IF i = 0 THEN devices ELSE Pop(devices, i)
    /\ cfg_op' = CfgOp("remove", name, NoDevice,
                       IF i = 0 THEN "KeyError" ELSE "ok")
    /\ UNCHANGED notConfigVars

\* Input sets of the exploration.
DeviceNames == {"stage", "Stage", "cam"}
Ips == {"h1", "h2"}
RepPorts == {1, 2}
\* pub_port, push_port, pull_port: none given, or one of them.
OptionalPorts == {<<NoPort, NoPort, NoPort>>, <<3, NoPort, NoPort>>,
                  <<NoPort, 4, NoPort>>, <<NoPort, NoPort, 5>>}

ConfigAddDevice ==
    \E name \in DeviceNames, ip \in Ips, rep_port \in RepPorts,
       opt \in OptionalPorts :
        AddDevice(Device(name, ip, rep_port, opt[1], opt[2], opt[3]))
ConfigRemoveDevice == \E name \in DeviceNames : RemoveDevice(name)

ConfigNext ==
    \/ ConfigAddDevice
    \/ ConfigRemoveDevice

(***************************************************************************)
(* DeviceManager (proxy.py)                                                *)
(***************************************************************************)

\* Bounds of the exploration.
MaxAttempts == 3

\* A DeviceManager operation and how it ended.
\*   kind:        "ping" (ping_device), "active" (device_active)
\*   outcome:     "returned" or "KeyError"
\*   result:      "latency" (a mean of measured times), "unreachable" (-1.0),
\*                "True", "False"
\*   round_trips: requests sent to the device during the operation
\*   answered:    replies received from the device during the operation
DmOp(kind, name, attempts, outcome, result, round_trips, answered) ==
    [kind |-> kind, name |-> name, attempts |-> attempts, outcome |-> outcome,
     result |-> result, round_trips |-> round_trips, answered |-> answered]
NoDmOp == DmOp("", "", 0, "", "", 0, 0)

\* DeviceManager.__init__(config) with a dictionary of three devices.
ManagerConfig ==
    <<Device("stage", "h1", 1, NoPort, NoPort, NoPort),
      Device("cam", "h1", 2, 3, NoPort, NoPort),
      Device("sink", "h2", 1, NoPort, NoPort, 5)>>

ManagerInit ==
    /\ up = {}
    /\ dm_op = NoDmOp

\* The address a proxy made by get_proxy connects to.
Address(dev) == <<dev.ip, dev.rep_port>>

\* The names DeviceProxy.__init__ and _setup_socket store in the instance
\* dictionary: reading one of them is an ordinary attribute lookup and
\* __getattr__ is not called.
InstanceDict ==
    {"ip", "rep_port", "timeout", "serialization", "req_socket", "send", "recv"}

\* Reading attribute name on a new DeviceProxy connected to addr.
ProxyRead(name, addr) ==
    IF name \in InstanceDict
        THEN [outcome |-> "value", round_trips |-> 0, answered |-> 0]
    ELSE IF addr \in up
        THEN [outcome |-> "value", round_trips |-> 1, answered |-> 1]
        ELSE [outcome |-> "ZMQError", round_trips |-> 1, answered |-> 0]

\* DeviceManager.ping_device(device_name, timeout, attempts): every attempt
\* reads prox.rep_port.
PingDevice(name, attempts) ==
    LET i == FindDevice(devices, name, 1)
        r == ProxyRead("rep_port", Address(devices[i]))
        failures == IF r.outcome = "ZMQError" THEN attempts ELSE 0
    IN /\ dm_op' =
            IF i = 0
                THEN DmOp("ping", name, attempts, "KeyError", "", 0, 0)
                ELSE DmOp("ping", name, attempts, "returned",
                          IF failures = attempts THEN "unreachable" ELSE "latency",
                          attempts * r.round_trips, attempts * r.answered)
       /\ UNCHANGED <<up, notManagerVars>>

\* DeviceManager.device_active(device_name, timeout): reads prox.rep_port.
DeviceActive(name) ==
    LET i == FindDevice(devices, name, 1)
        r == ProxyRead("rep_port", Address(devices[i]))
    IN /\ dm_op' =
            IF i = 0
                THEN DmOp("active", name, 0, "KeyError", "", 0, 0)
                ELSE DmOp("active", name, 0, "returned",
                          IF r.outcome = "ZMQError" THEN "False" ELSE "True",
                          r.round_trips, r.answered)
       /\ UNCHANGED <<up, notManagerVars>>

\* A device process starts or stops answering at its address.
DeviceStarts(addr) ==
    /\ addr \notin up
    /\ up' = up \cup {addr}
    /\ UNCHANGED <<dm_op, notManagerVars>>

DeviceStops(addr) ==
    /\ addr \in up
    /\ up' = up \ {addr}
    /\ UNCHANGED <<dm_op, notManagerVars>>

\* Input sets of the exploration.
ManagerNames == {"stage", "Stage", "cam", "sink", "nope"}
Addresses == {Address(ManagerConfig[i]) : i \in 1..Len(ManagerConfig)}

ManagerPing ==
    \E name \in ManagerNames, attempts \in 1..MaxAttempts : PingDevice(name, attempts)
ManagerActive == \E name \in ManagerNames : DeviceActive(name)
ManagerDeviceStarts == \E addr \in Addresses : DeviceStarts(addr)
ManagerDeviceStops == \E addr \in Addresses : DeviceStops(addr)

ManagerNext ==
    \/ ManagerPing
    \/ ManagerActive
    \/ ManagerDeviceStarts
    \/ ManagerDeviceStops

(***************************************************************************)
(* BasePubRepDevice and BaseSubRepDevice (device.py): the publish path     *)
(***************************************************************************)

\* Bounds of the exploration.
MaxPublishes == 3

\* add_subscription(ip, pub_port, hwm=1): RCVHWM of the subscriber socket.
SubHwm == 1

\* Input sets of the exploration: hwm of BasePubRepDevice.__init__.
PubHwms == {1, 2}

\* The outcome of the last publish: "queued", "dropped" (by the socket),
\* "nothing" (no value to publish).
PubOp(value, outcome) == [value |-> value, outcome |-> outcome]
NoPubOp == PubOp(0, "")

\* BasePubRepDevice.__init__ (set_publish_ip) and a BaseSubRepDevice that has
\* not subscribed yet.  Published values are numbered 1, 2, ...
PublisherInit ==
    /\ pub_hwm \in PubHwms
    /\ pub_queue = <<>>
    /\ sub_connected = FALSE
    /\ sub_queue = <<>>
    /\ observed = <<>>
    /\ pub_count = 0
    /\ missed = 0
    /\ read_at = {}
    /\ pub_op = NoPubOp

\* A PUB socket that keeps the newest message: a full queue loses its head.
PubSendConflate(q, v, h) ==
    IF Len(q) < h
        THEN [queue |-> Append(q, v), outcome |-> "queued"]
        ELSE [queue |-> Append(Tail(q), v), outcome |-> "queued"]

\* self.__pub_func(output) on the PUB socket with SNDHWM = hwm: the call
\* never waits; when the queue towards the subscriber holds hwm messages the
\* message being sent is dropped.
PubSend(q, v, h) ==
    IF Len(q) < h
        THEN [queue |-> Append(q, v), outcome |-> "queued"]
        ELSE [queue |-> q, outcome |-> "dropped"]

\* BasePubRepDevice.publish(to_publish) with a value.  A PUB socket with no
\* subscriber attached discards what it is given.
Publish ==
    LET v == pub_count + 1
        out == PubSend(pub_queue, v, pub_hwm)
    IN /\ pub_count < MaxPublishes
       /\ pub_count' = v
       /\ IF sub_connected
             THEN /\ pub_queue' = out.queue
                  /\ pub_op' = PubOp(v, out.outcome)
                  /\ missed' = missed
             ELSE /\ pub_queue' = pub_queue
                  /\ pub_op' = PubOp(v, "dropped")
                  /\ missed' = missed + 1
       /\ UNCHANGED <<pub_hwm, sub_connected, sub_queue, observed, read_at>>
       /\ UNCHANGED notPublisherVars

\* publish() with no argument: _publish() returns None and nothing is sent.
PublishNothing ==
    /\ pub_op' = PubOp(0, "nothing")
    /\ UNCHANGED <<pub_hwm, pub_queue, sub_connected, sub_queue, observed,
                   pub_count, missed, read_at>>
    /\ UNCHANGED notPublisherVars

\* BaseSubRepDevice.add_subscription: the SUB socket connects and subscribes.
AddSubscription ==
    /\ ~sub_connected
    /\ sub_connected' = TRUE
    /\ UNCHANGED <<pub_hwm, pub_queue, sub_queue, observed, pub_count, missed,
                   read_at, pub_op>>
    /\ UNCHANGED notPublisherVars

\* The sockets' I/O threads move the oldest queued message to the
\* subscriber's receive queue when it has room.
Transfer ==
    /\ pub_queue # <<>>
    /\ Len(sub_queue) < SubHwm
    /\ sub_queue' = Append(sub_queue, Head(pub_queue))
    /\ pub_queue' = Tail(pub_queue)
    /\ UNCHANGED <<pub_hwm, sub_connected, observed, pub_count, missed, read_at,
                   pub_op>>
    /\ UNCHANGED notPublisherVars

\* BaseSubRepDevice._check_sub: recv with RCVTIMEO 0, then handle_data.
CheckSub ==
    /\ sub_connected
    /\ pub_count \notin read_at \/ sub_queue # <<>>
    /\ read_at' = read_at \cup {pub_count}
    /\ IF sub_queue = <<>>
          THEN UNCHANGED <<sub_queue, observed>>
          ELSE /\ observed' = Append(observed, Head(sub_queue))
               /\ sub_queue' = Tail(sub_queue)
    /\ UNCHANGED <<pub_hwm, pub_queue, sub_connected, pub_count, missed, pub_op>>
    /\ UNCHANGED notPublisherVars

PublisherNext ==
    \/ Publish
    \/ PublishNothing
    \/ AddSubscription
    \/ Transfer
    \/ CheckSub

(***************************************************************************)
(* RemoteObject: asynchronous callbacks                                    *)
(***************************************************************************)

\* Bounds of the exploration.
MaxCallbacks == 2

AsyncInit ==
    /\ async_callbacks = [name \in Names |-> <<>>]
    /\ dest_down = {}
    /\ cb_sent = <<>>
    /\ cb_logged = 0

\* register_async_callback: the destination is appended to the list of the
\* method; a name that is absent or not callable gives ZroError 2 or 3.
RegisterAsyncCallback(callable_name, dest) ==
    /\ ~closed
    /\ Len(async_callbacks[callable_name]) < MaxCallbacks
    /\ event' = [src |-> "local",
                 frame |-> RunPacket("", "register_async_callback",
                                     <<callable_name>>)]
    /\ IF members[callable_name].kind = "absent"
          THEN ret' = ZroError(callable_name, 2, 0) /\ UNCHANGED async_callbacks
       ELSE IF members[callable_name].kind # "method"
          THEN ret' = ZroError(callable_name, 3, 0) /\ UNCHANGED async_callbacks
          ELSE /\ ret' = Val("None")
               /\ async_callbacks' =
                      [async_callbacks EXCEPT ![callable_name] = Append(@, dest)]
    /\ UNCHANGED <<members, async_results, async_handle_index, async_handle_list,
                   timers, send_func, closed, rep_state, replies, codecs,
                   escaped, ran>>
    /\ UNCHANGED <<earlierVars, notAsyncLaterVars, dest_down, cb_sent, cb_logged>>

\* The loop of unregister_async_callback: the list is walked by index while
\* matching entries are removed from it (list.remove drops the first match).
RECURSIVE UnregisterLoop(_, _, _)
UnregisterLoop(list, i, dest) ==
    IF i > Len(list) THEN list
    ELSE IF list[i] = dest
        THEN UnregisterLoop(RemoveFirst(list, dest), i + 1, dest)
        ELSE UnregisterLoop(list, i + 1, dest)

\* unregister_async_callback
UnregisterAsyncCallback(callable_name, dest) ==
    /\ ~closed
    /\ event' = [src |-> "local",
                 frame |-> RunPacket("", "unregister_async_callback",
                                     <<callable_name>>)]
    /\ ret' = Val("None")
    /\ async_callbacks' =
           [async_callbacks EXCEPT ![callable_name] = UnregisterLoop(@, 1, dest)]
    /\ UNCHANGED <<members, async_results, async_handle_index, async_handle_list,
                   timers, send_func, closed, rep_state, replies, codecs,
                   escaped, ran>>
    /\ UNCHANGED <<earlierVars, notAsyncLaterVars, dest_down, cb_sent, cb_logged>>

\* The device at a destination address stops answering, or answers again.
DestinationStops(addr) ==
    /\ addr \notin dest_down
    /\ dest_down' = dest_down \cup {addr}
    /\ UNCHANGED <<async_callbacks, cb_sent, cb_logged>>
    /\ UNCHANGED <<earlierVars, notAsyncLaterVars, serverVars>>

DestinationResumes(addr) ==
    /\ addr \in dest_down
    /\ dest_down' = dest_down \ {addr}
    /\ UNCHANGED <<async_callbacks, cb_sent, cb_logged>>
    /\ UNCHANGED <<earlierVars, notAsyncLaterVars, serverVars>>

\* Input sets of the exploration.
CallbackNames == {"my_method", "nope", "my_attribute"}
DestAddrs == {"d1", "d2"}
Dests == {Dest(a, "on_result") : a \in DestAddrs}
AsyncCallNames == {"my_method", "bad_method"}

AsyncRegister == \E name \in CallbackNames, d \in Dests : RegisterAsyncCallback(name, d)
AsyncUnregister ==
    \E name \in CallbackNames, d \in Dests : UnregisterAsyncCallback(name, d)
AsyncCall == \E name \in AsyncCallNames : LocalCallAsync(name)
AsyncDestinationStops == \E a \in DestAddrs : DestinationStops(a)
AsyncDestinationResumes == \E a \in DestAddrs : DestinationResumes(a)

AsyncNext ==
    \/ AsyncRegister
    \/ AsyncUnregister
    \/ AsyncCall
    \/ ServerLocalGetAsyncResult
    \/ ServerTimer
    \/ AsyncDestinationStops
    \/ AsyncDestinationResumes

(***************************************************************************)
(* BaseSubRepDevice: subscription sockets                                  *)
(***************************************************************************)

\* Bounds of the exploration.
MaxSubSockets == 3

\* "tcp://{}:{}".format(ip, pub_port)
ConnectionStr(ip, port) == [ip |-> ip, port |-> port]

\* A SUB socket: its number and the address it is connected to.
SubSocket(id, con_str) == [id |-> id, addr |-> con_str]

\* ip in con_str: the substring test of remove_subscription.  Of the
\* addresses explored, "h1" is a substring of "h11".
InConStr(ip, con_str) ==
    \/ ip = con_str.ip
    \/ ip = "h1" /\ con_str.ip = "h11"

SubscriberInit ==
    /\ subscriptions = <<>>
    /\ open_socks = {}
    /\ sock_count = 0
    /\ sub_pending = {}
    /\ handled = <<>>
    /\ sub_raised = ""

\* Index of the entry of the ordered dict with this key (0: none).
RECURSIVE KeyIndex(_, _, _)
KeyIndex(subs, con_str, i) ==
    IF i > Len(subs) THEN 0
    ELSE IF subs[i].key = con_str THEN i
    ELSE KeyIndex(subs, con_str, i + 1)

\* d[key] = value on an OrderedDict: a present key keeps its position.
SetItem(subs, con_str, sock) ==
    LET i == KeyIndex(subs, con_str, 1) IN
    IF i = 0 THEN Append(subs, [key |-> con_str, sock |-> sock])
    ELSE [subs EXCEPT ![i].sock = sock]

\* add_subscription opens a socket and stores it; a socket it replaces in
\* the dict is not closed by the call.
OpenAfterAdd(subs, socks, con_str, sock) == socks \cup {sock}

\* add_subscription
SubscriberAdd(ip, port) ==
    /\ sock_count < MaxSubSockets
    /\ LET con_str == ConnectionStr(ip, port)
           sock == SubSocket(sock_count + 1, con_str)
       IN /\ sock_count' = sock_count + 1
          /\ open_socks' = OpenAfterAdd(subscriptions, open_socks, con_str, sock)
          /\ subscriptions' = SetItem(subscriptions, con_str, sock)
    /\ sub_raised' = ""
    /\ UNCHANGED <<sub_pending, handled>>
    /\ UNCHANGED notSubVars

\* Index of the first entry from i on whose key contains ip (0: none).
RECURSIVE FirstMatch(_, _, _)
FirstMatch(subs, ip, i) ==
    IF i > Len(subs) THEN 0
    ELSE IF InConStr(ip, subs[i].key) THEN i
    ELSE FirstMatch(subs, ip, i + 1)

DeleteAt(subs, i) == SubSeq(subs, 1, i - 1) \o SubSeq(subs, i + 1, Len(subs))

\* remove_subscription: the loop runs over the keys of the OrderedDict while
\* deleting from it.  The first matching entry is closed and deleted; unless
\* it was the last key, the iterator then raises RuntimeError.
SubscriberRemove(ip) ==
    /\ LET i == FirstMatch(subscriptions, ip, 1) IN
       IF i = 0
          THEN /\ sub_raised' = ""
               /\ UNCHANGED <<subscriptions, open_socks, sub_pending>>
          ELSE /\ open_socks' = open_socks \ {subscriptions[i].sock}
               /\ sub_pending' = sub_pending \ {subscriptions[i].sock}
               /\ subscriptions' = DeleteAt(subscriptions, i)
               /\ sub_raised' = IF i < Len(subscriptions) THEN "RuntimeError"
                                                         ELSE ""
    /\ UNCHANGED <<sock_count, handled>>
    /\ UNCHANGED notSubVars

\* remove_all_subscriptions: the sockets in the dict are closed.
SubscriberRemoveAll ==
    /\ open_socks' = open_socks \ {subscriptions[i].sock : i \in DOMAIN subscriptions}
    /\ sub_pending' =
           sub_pending \ {subscriptions[i].sock : i \in DOMAIN subscriptions}
    /\ subscriptions' = <<>>
    /\ sub_raised' = ""
    /\ UNCHANGED <<sock_count, handled>>
    /\ UNCHANGED notSubVars

\* The interpreter finalizes the sockets nothing refers to any more, which
\* closes them.
Finalize ==
    /\ open_socks # {subscriptions[i].sock : i \in DOMAIN subscriptions}
    /\ open_socks' = {subscriptions[i].sock : i \in DOMAIN subscriptions}
    /\ sub_pending' = sub_pending \cap open_socks'
    /\ UNCHANGED <<subscriptions, sock_count, handled, sub_raised>>
    /\ UNCHANGED notSubVars

\* The publisher at an address publishes: every open socket connected to it
\* receives the message.
PublisherSends(con_str) ==
    /\ \E sk \in open_socks : sk.addr = con_str /\ sk \notin sub_pending
    /\ sub_pending' = sub_pending \cup {sk \in open_socks : sk.addr = con_str}
    /\ UNCHANGED <<subscriptions, open_socks, sock_count, handled, sub_raised>>
    /\ UNCHANGED notSubVars

\* The loop of _check_sub: handle_data(name, data) for each socket of the
\* dict that holds a message.
RECURSIVE CheckSubLoop(_, _)
CheckSubLoop(subs, pend) ==
    IF subs = <<>> THEN <<>>
    ELSE (IF Head(subs).sock \in pend
            THEN <<[name |-> Head(subs).key, origin |-> Head(subs).sock.addr]>>
            ELSE <<>>) \o CheckSubLoop(Tail(subs), pend)

\* _check_sub
SubscriberCheck ==
    /\ handled' = CheckSubLoop(subscriptions, sub_pending)
    /\ sub_pending' =
           sub_pending \ {subscriptions[i].sock : i \in DOMAIN subscriptions}
    /\ sub_raised' = ""
    /\ UNCHANGED <<subscriptions, open_socks, sock_count>>
    /\ UNCHANGED notSubVars

\* Input sets of the exploration.
SubIps == {"h1", "h11"}
SubPorts == {1, 2}
SubAddresses == {ConnectionStr(ip, port) : ip \in SubIps, port \in SubPorts}

SubscriberAdds == \E ip \in SubIps, port \in SubPorts : SubscriberAdd(ip, port)
SubscriberRemoves == \E ip \in SubIps : SubscriberRemove(ip)
SubscriberPublisherSends == \E a \in SubAddresses : PublisherSends(a)

SubscriberNext ==
    \/ SubscriberAdds
    \/ SubscriberRemoves
    \/ SubscriberRemoveAll
    \/ Finalize
    \/ SubscriberPublisherSends
    \/ SubscriberCheck

(***************************************************************************)
(* BaseProducerRepDevice, BaseConsumerRepDevice, BaseSinkRepDevice         *)
(***************************************************************************)

\* Bounds of the exploration.
MaxWork == 3

Consumers == {"c1", "c2"}

\* process(work), as an extending class defines it.
Process(work) == [processed |-> work]

PipeInit ==
    /\ push_count = 0
    /\ pushed_in = <<>>
    /\ work_q = [c \in Consumers |-> <<>>]
    /\ has_sink = {}
    /\ result_q = <<>>
    /\ batch = "0"
    /\ sink_handled = <<>>
    /\ no_sink = {}

\* A result packet that has lost the id of its work.
ResultPacketNoId(pkt) == [data |-> Process(pkt.work), id |-> 0]

\* _handle_work: packet = {"data": output, "id": id_}
ResultPacket(pkt) == [data |-> Process(pkt.work), id |-> pkt.id]

\* Producer.push(work, id_): the PUSH socket hands the packet to one of the
\* connected consumers.
Push(work, c) ==
    /\ push_count < MaxWork
    /\ push_count' = push_count + 1
    /\ pushed_in' = Append(pushed_in, batch)
    /\ work_q' = [work_q EXCEPT ![c] = Append(@, [work |-> work,
                                                   id |-> push_count + 1])]
    /\ UNCHANGED <<has_sink, result_q, batch, sink_handled, no_sink>>
    /\ UNCHANGED notPipeVars

\* Consumer.set_sink
SetSink(c) ==
    /\ c \notin has_sink
    /\ has_sink' = has_sink \cup {c}
    /\ UNCHANGED <<push_count, pushed_in, work_q, result_q, batch, sink_handled,
                   no_sink>>
    /\ UNCHANGED notPipeVars

\* Consumer._incoming_data and _handle_work for one packet.
HandleWork(c) ==
    /\ work_q[c] # <<>>
    /\ work_q' = [work_q EXCEPT ![c] = Tail(@)]
    /\ IF c \in has_sink
          THEN /\ result_q' = Append(result_q, ResultPacket(Head(work_q[c])))
               /\ UNCHANGED no_sink
          ELSE /\ no_sink' = no_sink \cup {Head(work_q[c]).id}
               /\ UNCHANGED result_q
    /\ UNCHANGED <<push_count, pushed_in, has_sink, batch, sink_handled>>
    /\ UNCHANGED notPipeVars

\* Sink.start_batch(name)
StartBatch(name) ==
    /\ batch' = name
    /\ UNCHANGED <<push_count, pushed_in, work_q, has_sink, result_q,
                   sink_handled, no_sink>>
    /\ UNCHANGED notPipeVars

\* Sink.end_batch
EndBatch ==
    /\ batch' = "0"
    /\ UNCHANGED <<push_count, pushed_in, work_q, has_sink, result_q,
                   sink_handled, no_sink>>
    /\ UNCHANGED notPipeVars

\* Sink._incoming_data and _handle_data for one packet: the name given to
\* handle_data is made of self.batch, the id and the time of arrival.
HandleData ==
    /\ result_q # <<>>
    /\ result_q' = Tail(result_q)
    /\ sink_handled' = Append(sink_handled,
                              [batch |-> batch, id |-> Head(result_q).id,
                               data |-> Head(result_q).data])
    /\ UNCHANGED <<push_count, pushed_in, work_q, has_sink, batch, no_sink>>
    /\ UNCHANGED notPipeVars

\* Input sets of the exploration.
Works == {"w"}
BatchNames == {"b1"}

PipePush == \E w \in Works, c \in Consumers : Push(w, c)
PipeSetSink == \E c \in Consumers : SetSink(c)
PipeHandleWork == \E c \in Consumers : HandleWork(c)
PipeStartBatch == \E name \in BatchNames : batch # name /\ StartBatch(name)
PipeEndBatch == batch # "0" /\ EndBatch

PipeNext ==
    \/ PipePush
    \/ PipeSetSink
    \/ PipeHandleWork
    \/ PipeStartBatch
    \/ PipeEndBatch
    \/ HandleData

(***************************************************************************)
(* DeviceProxy with a server that answers late                             *)
(***************************************************************************)

\* Bounds of the exploration.
MaxRequests == 5

notLateVars == <<routerVars, serverVars, proxyVars, zroVars, configVars,
                 managerVars, publisherVars, asyncVars, threadVars, stepVars,
                 headerVars, subVars, pipeVars, sessionVars, tailVars>>

\* A proxy operation: the request it sent (0: none), how it ended ("value":
\* a reply was returned or examined, "Again": recv timed out, "ZMQError":
\* the send was refused) and the request the reply read belongs to.
LateOp(kind, seq, outcome, reply_of) ==
    [kind |-> kind, seq |-> seq, outcome |-> outcome, reply_of |-> reply_of]

LateInit ==
    /\ rq_sock = 1
    /\ rq_state = "ready"
    /\ rq_seq = 0
    /\ rq_server = <<>>
    /\ rq_inbox = <<>>
    /\ rq_op = LateOp("", 0, "", 0)

\* A socket that accepts a send whatever its state.
SendRefusedNever(state) == FALSE

\* A REQ socket refuses a send while the reply to its last request has not
\* been read (zmq.ZMQError, EFSM).
SendRefused(state) == state = "awaiting"

\* The replies the server's answers to these requests put in the socket.
RECURSIVE RepliesTo(_, _)
RepliesTo(requests, sock) ==
    IF requests = <<>> THEN <<>>
    ELSE (IF Head(requests).sock = sock THEN <<Head(requests).seq>> ELSE <<>>)
         \o RepliesTo(Tail(requests), sock)

\* send, then recv: within the timeout the server answers its k oldest
\* requests; recv returns the first reply in the socket, or times out.
SendRecv(kind, sock, unread) ==
    \E k \in 0..(Len(rq_server) + 1) :
        LET queue == Append(rq_server, [sock |-> sock, seq |-> rq_seq + 1])
            got == unread \o RepliesTo(SubSeq(queue, 1, k), sock)
        IN /\ rq_seq' = rq_seq + 1
           /\ rq_sock' = sock
           /\ rq_server' = SubSeq(queue, k + 1, Len(queue))
           /\ IF got # <<>>
                 THEN /\ rq_op' = LateOp(kind, rq_seq + 1, "value", Head(got))
                      /\ rq_inbox' = Tail(got)
                      /\ rq_state' = "ready"
                 ELSE /\ rq_op' = LateOp(kind, rq_seq + 1, "Again", 0)
                      /\ rq_inbox' = <<>>
                      /\ rq_state' = "awaiting"

\* __getattr__ and __setattr__: _send_packet, then recv.  A refused send
\* closes the socket, builds a new one and sends on it.
PacketOp(kind) ==
    /\ rq_seq < MaxRequests
    /\ IF SendRefused(rq_state)
          THEN SendRecv(kind, rq_sock + 1, <<>>)
          ELSE SendRecv(kind, rq_sock, rq_inbox)
    /\ UNCHANGED notLateVars

\* _call: send on the socket directly, then recv.  A refused send raises.
CallOp ==
    /\ rq_seq < MaxRequests
    /\ IF SendRefused(rq_state)
          THEN /\ rq_op' = LateOp("call", 0, "ZMQError", 0)
               /\ UNCHANGED <<rq_sock, rq_state, rq_seq, rq_server, rq_inbox>>
          ELSE SendRecv("call", rq_sock, rq_inbox)
    /\ UNCHANGED notLateVars

\* The server answers its oldest request while the proxy is idle: the reply
\* reaches the socket that sent the request if it is still open.
ServerAnswersLate ==
    /\ rq_server # <<>>
    /\ rq_server' = Tail(rq_server)
    /\ rq_inbox' = rq_inbox \o RepliesTo(<<Head(rq_server)>>, rq_sock)
    /\ UNCHANGED <<rq_sock, rq_state, rq_seq, rq_op>>
    /\ UNCHANGED notLateVars

LateGetSet == \E kind \in {"get", "set"} : PacketOp(kind)

LateNext ==
    \/ LateGetSet
    \/ CallOp
    \/ ServerAnswersLate

(***************************************************************************)
(* SharedSessionId: a session id shared through a redis key                *)
(***************************************************************************)

\* Bounds of the exploration.
MaxTime == 3
MaxSessions == 2
MaxNotified == 2

\* heartbeat_period_s of every instance, and the time-to-live the callers
\* give (NoExpiry stands for time_to_live_s=None).
HeartbeatPeriod == 2
NoExpiry == 0
TimesToLive == {NoExpiry, 1}

\* The instances: processes of two rigs, one per refresh mode on Rig1.
Instances == {"sub", "poll", "check", "other"}
Channels == {"Rig1", "Rig2"}

ChannelOf(i) == IF i = "other" THEN "Rig2" ELSE "Rig1"

ModeOf(i) ==
    CASE i = "poll"  -> "threaded_polling"
      [] i = "check" -> "checking"
      [] OTHER       -> "event_sub"

\* No value under the key (rdb.get returns None), and self._session = None.
NoSession == 0

\* self.last_get = 0 of __init__: time.time() - 0 exceeds every heartbeat
\* period.
NeverGot == 0 - (HeartbeatPeriod + 1)

\* The main thread of an instance: outside start_session ("idle"), or inside
\* it, about to run
\*   "set"     self.rdb.set(self.channel, session_id, ex=time_to_live_s)
\*   "update"  self.update_session_id(), the second statement of _set
\*   "assign"  self._session = session_id
\* with id the local session_id and ex the time to live.
MainThread(pc, id, ex) == [pc |-> pc, id |-> id, ex |-> ex]

Idle == MainThread("idle", NoSession, NoExpiry)

\* A subscription to the bare channel name, which no keyspace message bears.
SubscribersOfName(ch) == {}

\* The instances whose psubscribe pattern matches the keyspace channel of ch.
Subscribers(ch) == {i \in Instances : ChannelOf(i) = ch /\ ModeOf(i) = "event_sub"}

\* The last start_session that found a value stored and was not to replace
\* it: the channel, the time to live asked for and the exception raised.
KeptCall(ch, ex, raised) == [ch |-> ch, ex |-> ex, raised |-> raised]

SessionInit ==
    /\ ss_kept = KeptCall("", NoExpiry, "")
    /\ rdb = [ch \in Channels |-> NoSession]
    /\ expiry = [ch \in Channels |-> NoExpiry]
    /\ session = [i \in Instances |-> NoSession]
    /\ last_get = [i \in Instances |-> NeverGot]
    /\ now = 0
    /\ ss_call = [i \in Instances |-> Idle]
    /\ notified = [i \in Instances |-> 0]
    /\ slept = [i \in Instances |-> 0]
    /\ changed_at = [ch \in Channels |-> 0]
    /\ starter = [ch \in Channels |-> ""]
    /\ overlapped = [ch \in Channels |-> FALSE]
    /\ started = 0

\* update_session_id: the value read replaces self._session, and last_get
\* moves only when a value was read.
UpdatedSession(i) == rdb[ChannelOf(i)]

UpdatedLastGet(i) ==
    IF rdb[ChannelOf(i)] # NoSession THEN now ELSE last_get[i]

UpdateSessionId(i) ==
    /\ session' = [session EXCEPT ![i] = UpdatedSession(i)]
    /\ last_get' = [last_get EXCEPT ![i] = UpdatedLastGet(i)]

\* The keyspace message of a change of ch reaches every subscription.
Notify(ch) ==
    notified' = [i \in Instances |->
                    IF i \in Subscribers(ch) THEN notified[i] + 1 ELSE notified[i]]

CanNotify(ch) == \A i \in Subscribers(ch) : notified[i] < MaxNotified

\* start_session up to the choice of session_id.  The walrus binds the whole
\* condition, self._get() and not kill_existing: it is true only when a value
\* is stored and kill_existing is False, and then the value handed to rdb.set
\* is the bool True, which the client library refuses (DataError) before
\* anything is sent.  Otherwise a new id is made of the time, node and pid.
StartSession(i, time_to_live_s, kill_existing) ==
    /\ ss_call[i] = Idle
    /\ started < MaxSessions
    /\ IF rdb[ChannelOf(i)] # NoSession /\ ~kill_existing
          THEN /\ ss_kept' = KeptCall(ChannelOf(i), time_to_live_s, "DataError")
               /\ UNCHANGED <<ss_call, started>>
          ELSE /\ ss_call' = [ss_call EXCEPT
                                 ![i] = MainThread("set", started + 1, time_to_live_s)]
               /\ started' = started + 1
               /\ UNCHANGED ss_kept
    /\ UNCHANGED <<rdb, expiry, session, last_get, now, notified, slept,
                   changed_at, starter, overlapped>>
    /\ UNCHANGED notSessionVars

\* Another instance of the channel is inside start_session.
OthersStarting(i) ==
    \E j \in Instances \ {i} : ChannelOf(j) = ChannelOf(i) /\ ss_call[j] # Idle

\* _set, first statement: the value and its expiry are stored.
StartSet(i) ==
    /\ ss_call[i].pc = "set"
    /\ CanNotify(ChannelOf(i))
    /\ rdb' = [rdb EXCEPT ![ChannelOf(i)] = ss_call[i].id]
    /\ expiry' = [expiry EXCEPT ![ChannelOf(i)] = ss_call[i].ex]
    /\ changed_at' = [changed_at EXCEPT ![ChannelOf(i)] = now]
    /\ starter' = [starter EXCEPT ![ChannelOf(i)] = i]
    /\ overlapped' = [overlapped EXCEPT
                          ![ChannelOf(i)] = OthersStarting(i)]
    /\ Notify(ChannelOf(i))
    /\ ss_call' = [ss_call EXCEPT ![i].pc = "update"]
    /\ UNCHANGED <<session, last_get, now, slept, started>>
    /\ UNCHANGED ss_kept
    /\ UNCHANGED notSessionVars

\* _set, second statement.
StartUpdate(i) ==
    /\ ss_call[i].pc = "update"
    /\ UpdateSessionId(i)
    /\ ss_call' = [ss_call EXCEPT ![i].pc = "assign"]
    /\ UNCHANGED <<rdb, expiry, now, notified, slept, changed_at, starter,
                   overlapped,
                   started>>
    /\ UNCHANGED ss_kept
    /\ UNCHANGED notSessionVars

\* The last assignment of start_session.
StartAssign(i) ==
    /\ ss_call[i].pc = "assign"
    /\ session' = [session EXCEPT ![i] = ss_call[i].id]
    /\ ss_call' = [ss_call EXCEPT ![i] = Idle]
    /\ UNCHANGED <<rdb, expiry, last_get, now, notified, slept, changed_at,
                   starter, overlapped, started>>
    /\ UNCHANGED ss_kept
    /\ UNCHANGED notSessionVars

\* end_session: the key is deleted; the database reports a deletion only
\* when there was a key.
EndSession(i) ==
    /\ ss_call[i] = Idle
    /\ rdb[ChannelOf(i)] # NoSession
    /\ CanNotify(ChannelOf(i))
    /\ rdb' = [rdb EXCEPT ![ChannelOf(i)] = NoSession]
    /\ expiry' = [expiry EXCEPT ![ChannelOf(i)] = NoExpiry]
    /\ changed_at' = [changed_at EXCEPT ![ChannelOf(i)] = now]
    /\ Notify(ChannelOf(i))
    /\ UNCHANGED <<session, last_get, now, ss_call, slept, starter,
                   overlapped, started>>
    /\ UNCHANGED ss_kept
    /\ UNCHANGED notSessionVars

\* The thread of run_in_thread hands a keyspace message to update_session_id.
HandleMessage(i) ==
    /\ ModeOf(i) = "event_sub"
    /\ notified[i] > 0
    /\ notified' = [notified EXCEPT ![i] = notified[i] - 1]
    /\ UpdateSessionId(i)
    /\ UNCHANGED <<rdb, expiry, now, ss_call, slept, changed_at, starter,
                   overlapped,
                   started>>
    /\ UNCHANGED ss_kept
    /\ UNCHANGED notSessionVars

\* threaded_refresh_session_id: one turn of the loop, after its sleep.
ThreadedRefresh(i) ==
    /\ ModeOf(i) = "threaded_polling"
    /\ slept[i] = HeartbeatPeriod
    /\ slept' = [slept EXCEPT ![i] = 0]
    /\ UpdateSessionId(i)
    /\ UNCHANGED <<rdb, expiry, now, ss_call, notified, changed_at, starter,
                   overlapped,
                   started>>
    /\ UNCHANGED ss_kept
    /\ UNCHANGED notSessionVars

\* The session property refreshes first, in checking mode, when the last
\* value read is older than the heartbeat period.
Refreshes(i) ==
    ModeOf(i) = "checking" /\ now - last_get[i] > HeartbeatPeriod

\* What the session property returns in the current state.
Reported(i) == IF Refreshes(i) THEN UpdatedSession(i) ELSE session[i]

ReadSession(i) ==
    /\ ss_call[i] = Idle
    /\ Refreshes(i)
    /\ UpdateSessionId(i)
    /\ UNCHANGED <<rdb, expiry, now, ss_call, notified, slept, changed_at,
                   starter, overlapped, started>>
    /\ UNCHANGED ss_kept
    /\ UNCHANGED notSessionVars

\* A second passes.  Calls, message handling and a due refresh take less
\* than a second; a key whose time to live ends is removed, and the database
\* reports it.
Expiring(ch) == expiry[ch] = 1

Tick ==
    /\ now < MaxTime
    /\ \A i \in Instances :
           /\ ss_call[i] = Idle
           /\ notified[i] = 0
           /\ ModeOf(i) = "threaded_polling" => slept[i] < HeartbeatPeriod
    /\ now' = now + 1
    /\ slept' = [i \in Instances |->
                    IF ModeOf(i) = "threaded_polling" THEN slept[i] + 1 ELSE 0]
    /\ rdb' = [ch \in Channels |-> IF Expiring(ch) THEN NoSession ELSE rdb[ch]]
    /\ expiry' = [ch \in Channels |->
                     IF expiry[ch] > 0 THEN expiry[ch] - 1 ELSE NoExpiry]
    /\ changed_at' = [ch \in Channels |->
                         IF Expiring(ch) THEN now + 1 ELSE changed_at[ch]]
    /\ notified' = [i \in Instances |->
                       IF ModeOf(i) = "event_sub" /\ Expiring(ChannelOf(i))
                          THEN 1 ELSE 0]
    /\ UNCHANGED <<session, last_get, ss_call, starter, overlapped, started>>
    /\ UNCHANGED ss_kept
    /\ UNCHANGED notSessionVars

SessionStart == \E i \in Instances, ex \in TimesToLive, kill \in BOOLEAN :
                    StartSession(i, ex, kill)
SessionSet == \E i \in Instances : StartSet(i)
SessionUpdate == \E i \in Instances : StartUpdate(i)
SessionAssign == \E i \in Instances : StartAssign(i)
SessionEnd == \E i \in Instances : EndSession(i)
SessionMessage == \E i \in Instances : HandleMessage(i)
SessionRefresh == \E i \in Instances : ThreadedRefresh(i)
SessionRead == \E i \in Instances : ReadSession(i)

SessionNext ==
    \/ SessionStart
    \/ SessionSet
    \/ SessionUpdate
    \/ SessionAssign
    \/ SessionEnd
    \/ SessionMessage
    \/ SessionRefresh
    \/ SessionRead
    \/ Tick

(***************************************************************************)
(* BaseSubRepDevice.run_forever                                            *)
(***************************************************************************)

\* Bounds of the exploration.
MaxTraffic == 5

\* What a client may put on the reply socket: a well-formed request, bytes
\* that neither pickle nor json decodes, and a decodable dict without the
\* 'command' key.
RequestKinds == {"ok", "undecodable", "malformed"}

\* What a publisher may send: a decodable payload, bytes that neither pickle
\* nor json decodes, and a payload on which the handle_data of the extending
\* class raises.
MessageKinds == {"ok", "undecodable", "raises"}

LoopInit ==
    /\ rf_running = TRUE
    /\ rf_requests = <<>>
    /\ rf_messages = <<>>
    /\ rf_replied = 0
    /\ rf_handled = 0
    /\ rf_arrived = 0
    /\ rf_logged = ""

\* _check_rep on the oldest request: the exception that leaves it, or "".
\* _handle_request turns the ValueError of __decode_request into an error
\* reply; the KeyError of request["command"] is raised outside any try.
CheckRepRaises(reqs) ==
    IF reqs # <<>> /\ Head(reqs) = "malformed" THEN "KeyError" ELSE ""

\* Replies _check_rep sends.
CheckRepReplies(reqs) ==
    IF reqs # <<>> /\ Head(reqs) # "malformed" THEN 1 ELSE 0

\* _check_sub on the oldest message: only zmq.error.Again is caught, so the
\* exception of json.loads in _decode_data and whatever handle_data raises
\* leave it.
CheckSubRaises(msgs) ==
    IF msgs = <<>> THEN ""
    ELSE IF Head(msgs) = "undecodable" THEN "ValueError"
    ELSE IF Head(msgs) = "raises" THEN "Exception"
    ELSE ""

Rest(q) == IF q = <<>> THEN <<>> ELSE Tail(q)

\* One turn of the while loop of run_forever: _check_rep, _check_sub,
\* _onupdate; the try statement encloses the loop, so an exception of any
\* of them ends the loop and is logged.
RunForeverTurn ==
    /\ rf_running
    /\ LET rep == CheckRepRaises(rf_requests)
           sub == IF rep = "" THEN CheckSubRaises(rf_messages) ELSE ""
       IN /\ rf_requests' = Rest(rf_requests)
          /\ rf_replied' = rf_replied + CheckRepReplies(rf_requests)
          /\ rf_messages' = IF rep = "" THEN Rest(rf_messages) ELSE rf_messages
          /\ rf_handled' = IF rep = "" /\ rf_messages # <<>> /\ sub = ""
                              THEN rf_handled + 1 ELSE rf_handled
          /\ rf_logged' = IF rep # "" THEN rep ELSE sub
          /\ rf_running' = (rep = "" /\ sub = "")
    /\ UNCHANGED rf_arrived
    /\ UNCHANGED notLoopVars

\* A proxy sends a request to the device.
RequestArrives(kind) ==
    /\ rf_arrived < MaxTraffic
    /\ rf_requests' = Append(rf_requests, kind)
    /\ rf_arrived' = rf_arrived + 1
    /\ UNCHANGED <<rf_running, rf_messages, rf_replied, rf_handled, rf_logged>>
    /\ UNCHANGED notLoopVars

\* A publisher the device is subscribed to sends a message.
MessageArrives(kind) ==
    /\ rf_arrived < MaxTraffic
    /\ rf_messages' = Append(rf_messages, kind)
    /\ rf_arrived' = rf_arrived + 1
    /\ UNCHANGED <<rf_running, rf_requests, rf_replied, rf_handled, rf_logged>>
    /\ UNCHANGED notLoopVars

RunForeverRequest == \E k \in RequestKinds : RequestArrives(k)
RunForeverMessage == \E k \in MessageKinds : MessageArrives(k)

RunForeverNext ==
    \/ RunForeverTurn
    \/ RunForeverRequest
    \/ RunForeverMessage

(***************************************************************************)
(* ZMQHandler: dispatch of an inbound message                              *)
(***************************************************************************)

\* The keys a caller may register a callback under: message ids, the
\* wildcard as a str and the wildcard as bytes.
BytesWildcard == "b'*'"
CallbackKeys == {"T", "U", "V", WILDCARD, BytesWildcard}
InboundIds == {"T", "U", "V", "W"}

\* What a dispatch did: the key of the callback it ran ("" for none) and the
\* exception it raised ("" for none).
Dispatched(ran_, raised) == [ran |-> ran_, raised |-> raised]

NotDispatched == Dispatched("", "")

HandlerInit ==
    /\ message_callbacks = {}
    /\ h_message = ""
    /\ h_receive = NotDispatched
    /\ h_poll = NotDispatched

\* The body of the loop of _poll after recv_multipart: the callback of the
\* message id, else the one stored under '*'.
PollDispatch(table, message_id) ==
    IF message_id \in table THEN Dispatched(message_id, "")
    ELSE IF WILDCARD \in table THEN Dispatched(WILDCARD, "")
    ELSE NotDispatched

\* receive() after recv_multipart: the callback of the message id; else,
\* when the bytes b'*' is a key, the callback stored under the str '*'.
ReceiveDispatch(table, message_id) ==
    IF message_id \in table THEN Dispatched(message_id, "")
    ELSE IF BytesWildcard \in table
        THEN IF WILDCARD \in table THEN Dispatched(WILDCARD, "")
             ELSE Dispatched("", "KeyError")
    ELSE NotDispatched

\* register_for_message(message_id, callback): the callback is stored
\* before the registration is written to the router.
HandlerRegister(key) ==
    /\ message_callbacks' = message_callbacks \cup {key}
    /\ UNCHANGED <<h_message, h_receive, h_poll>>
    /\ UNCHANGED notHandlerVars

\* deregister_for_message(message_id)
HandlerDeregister(key) ==
    /\ message_callbacks' = message_callbacks \ {key}
    /\ UNCHANGED <<h_message, h_receive, h_poll>>
    /\ UNCHANGED notHandlerVars

\* A frame arrives from the router; what receive() and what _poll do with it
\* under the callbacks registered now.
HandlerFrame(message_id) ==
    /\ h_message' = message_id
    /\ h_receive' = ReceiveDispatch(message_callbacks, message_id)
    /\ h_poll' = PollDispatch(message_callbacks, message_id)
    /\ UNCHANGED message_callbacks
    /\ UNCHANGED notHandlerVars

HandlerRegisters == \E k \in CallbackKeys : HandlerRegister(k)
HandlerDeregisters == \E k \in CallbackKeys : HandlerDeregister(k)
HandlerFrames == \E m \in InboundIds : HandlerFrame(m)

HandlerNext ==
    \/ HandlerRegisters
    \/ HandlerDeregisters
    \/ HandlerFrames

(***************************************************************************)
(* RemoteObject.update_interval and the update timer                       *)
(***************************************************************************)

\* Bounds of the exploration.
MaxTimers == 4

\* The values assigned to update_interval, in ms.
Intervals == {0 - 1, 0, 1, 2}

\* An assignment to update_interval ("set", with the value and the exception
\* it raised) or a timeout of a DelayedCallback ("fire", which runs
\* _update_callback and so _onupdate).
IntervalOp(kind, ms, raised) == [kind |-> kind, ms |-> ms, raised |-> raised]

IntervalInit ==
    /\ update_interval = 0
    /\ update_timer = 0
    /\ scheduled = {}
    /\ timer_objs = 0
    /\ ui_op = IntervalOp("", 0, "")

TailInit == LoopInit /\ HandlerInit /\ IntervalInit

\* The setter of update_interval: the value is stored first; a positive
\* value makes and starts a new DelayedCallback, 0 stops the current one,
\* a negative value raises.
SetUpdateInterval(ms) ==
    /\ ms > 0 => timer_objs < MaxTimers
    /\ update_interval' = ms
    /\ IF ms > 0
          THEN /\ timer_objs' = timer_objs + 1
               /\ update_timer' = timer_objs + 1
               /\ scheduled' = scheduled \cup {timer_objs + 1}
          ELSE /\ scheduled' = IF ms = 0 THEN scheduled \ {update_timer}
                                         ELSE scheduled
               /\ UNCHANGED <<timer_objs, update_timer>>
    /\ ui_op' = IntervalOp("set", ms, IF ms < 0 THEN "ValueError" ELSE "")
    /\ UNCHANGED notIntervalVars

\* The timeout of a DelayedCallback: _update_callback runs _onupdate and,
\* when the interval is positive, starts self._update_timer.
UpdateCallback(t) ==
    /\ t \in scheduled
    /\ scheduled' = IF update_interval > 0
                       THEN (scheduled \ {t}) \cup {update_timer}
                       ELSE scheduled \ {t}
    /\ ui_op' = IntervalOp("fire", update_interval, "")
    /\ UNCHANGED <<update_interval, update_timer, timer_objs>>
    /\ UNCHANGED notIntervalVars

IntervalSet == \E ms \in Intervals : SetUpdateInterval(ms)
IntervalFire == \E t \in 1..MaxTimers : UpdateCallback(t)

IntervalNext ==
    \/ IntervalSet
    \/ IntervalFire

(***************************************************************************)
(* RemoteObject: threaded_async                                            *)
(***************************************************************************)

\* A timer thread in _call_async.  pc is the statement it executes next:
\*   "store"   self._async_results[async_handle] = <the value to_call returned,
\*             or the ZroError made of what it raised>
\*   "lookup"  if callable_name in self._async_callbacks.keys()
\*   "deliver" the loop of _send_async_result, at index i of the list
\*   "done"    the thread has ended
TimerThread(name, pc, i, writes) ==
    [name |-> name, pc |-> pc, i |-> i, writes |-> writes]

ThreadInit ==
    /\ tthreads = [h \in {} |-> TimerThread("", "done", 0, 0)]
    /\ thread_touched = {}

ThreadUnchanged ==
    UNCHANGED <<members, async_handle_index, async_handle_list, send_func,
                closed, rep_state, event, replies, codecs, escaped, ran, ret,
                earlierVars, notThreadLaterVars, dest_down>>

\* threading.Timer fires: the thread starts _call_async and calls to_call.
ThreadStart(tm) ==
    /\ tm \in timers
    /\ timers' = timers \ {tm}
    /\ tthreads' = [h \in DOMAIN tthreads \cup {tm.handle} |->
                       IF h = tm.handle THEN TimerThread(tm.name, "store", 0, 0)
                                        ELSE tthreads[h]]
    /\ UNCHANGED <<async_results, async_callbacks, cb_sent, cb_logged,
                   thread_touched>>
    /\ ThreadUnchanged

\* The thread writes the result slot of its handle.
ThreadStore(h) ==
    /\ h \in DOMAIN tthreads /\ tthreads[h].pc = "store"
    /\ async_results' =
           [k \in DOMAIN async_results \cup {h} |->
               IF k = h
                   THEN IF tthreads[h].name = "bad_method"
                           THEN ZroError(tthreads[h].name, 4, 0)
                           ELSE ReturnValue(tthreads[h].name)
                   ELSE async_results[k]]
    /\ tthreads' = [tthreads EXCEPT
                       ![h].pc = IF tthreads[h].name = "bad_method"
                                    THEN "done" ELSE "lookup",
                       ![h].writes = @ + 1]
    /\ thread_touched' = thread_touched \cup {"_async_results"}
    /\ UNCHANGED <<timers, async_callbacks, cb_sent, cb_logged>>
    /\ ThreadUnchanged

\* The thread looks the method up in the callback registry.
ThreadLookup(h) ==
    /\ h \in DOMAIN tthreads /\ tthreads[h].pc = "lookup"
    /\ tthreads' = [tthreads EXCEPT ![h].pc = "deliver", ![h].i = 1]
    /\ thread_touched' = thread_touched \cup {"_async_callbacks"}
    /\ cb_sent' = <<>>
    /\ cb_logged' = 0
    /\ UNCHANGED <<timers, async_results, async_callbacks>>
    /\ ThreadUnchanged

\* One iteration of the loop of _send_async_result over the registry's list
\* as it is now.
ThreadDeliver(h) ==
    /\ h \in DOMAIN tthreads /\ tthreads[h].pc = "deliver"
    /\ LET list == async_callbacks[tthreads[h].name]
           i == tthreads[h].i IN
       IF i > Len(list)
          THEN /\ tthreads' = [tthreads EXCEPT ![h].pc = "done"]
               /\ UNCHANGED <<cb_sent, cb_logged>>
       ELSE IF list[i].addr \in dest_down
          THEN /\ tthreads' = [tthreads EXCEPT ![h].pc = "done"]
               /\ cb_logged' = 9
               /\ UNCHANGED cb_sent
          ELSE /\ tthreads' = [tthreads EXCEPT ![h].i = i + 1]
               /\ cb_sent' = Append(cb_sent,
                                    [dest |-> list[i],
                                     result |-> ReturnValue(tthreads[h].name)])
               /\ UNCHANGED cb_logged
    /\ thread_touched' = thread_touched \cup {"_async_callbacks"}
    /\ UNCHANGED <<timers, async_results, async_callbacks>>
    /\ ThreadUnchanged

ThreadedTimer == \E tm \in timers : ThreadStart(tm)
ThreadedStore == \E h \in Handles : ThreadStore(h)
ThreadedLookup == \E h \in Handles : ThreadLookup(h)
ThreadedDeliver == \E h \in Handles : ThreadDeliver(h)

ThreadedRegister == \E d \in Dests : RegisterAsyncCallback("my_method", d)
ThreadedUnregister == \E d \in Dests : UnregisterAsyncCallback("my_method", d)

\* The reactor thread's calls, interleaved with the statements of the timer
\* threads.
ThreadedNext ==
    \/ ThreadedRegister
    \/ ThreadedUnregister
    \/ AsyncCall
    \/ ServerLocalGetAsyncResult
    \/ ThreadedTimer
    \/ ThreadedStore
    \/ ThreadedLookup
    \/ ThreadedDeliver

\* Every component starts as constructed; a specification runs one of them.
\* The publisher of the other specifications has the default-sized queue of
\* the exploration.
LaterInit ==
    /\ AsyncInit /\ ThreadInit /\ StepInit /\ HeaderInit /\ SubscriberInit
    /\ PipeInit /\ LateInit /\ SessionInit /\ TailInit

ExtInit ==
    /\ ZroInit /\ ConfigInit /\ ManagerInit /\ PublisherInit /\ pub_hwm = 1
    /\ LaterInit

Init ==
    RouterInit /\ ServerInit /\ ProxyInit /\ serialization = "pickle" /\ ExtInit

SpecRouter == Init /\ [][RouterNext]_vars

SpecSession == Init /\ [][SessionNext]_vars

SpecRunForever == Init /\ [][RunForeverNext]_vars

SpecHandler == Init /\ [][HandlerNext]_vars

SpecInterval == Init /\ [][IntervalNext]_vars

SpecServer == Init /\ [][ServerNext]_vars

\* A RemoteObject serving itself or a plain object.
InitServe ==
    RouterInit /\ ServeInit /\ ProxyInit /\ serialization = "pickle" /\ ExtInit

SpecServe == InitServe /\ [][ServeNext]_vars

\* The proxy with either serialization, talking to the server.
InitProxy == RouterInit /\ ServerInit /\ ProxyInit /\ ExtInit

SpecProxy == InitProxy /\ [][ProxyNext]_vars

\* A publisher with either queue depth and one subscriber.
InitPublisher ==
    /\ RouterInit /\ ServerInit /\ ProxyInit /\ serialization = "pickle"
    /\ ZroInit /\ ConfigInit /\ ManagerInit
    /\ PublisherInit
    /\ LaterInit

SpecPublisher == InitPublisher /\ [][PublisherNext]_vars

\* The router with clients that disconnect.
SpecRouterStale == Init /\ [][RouterStaleNext]_vars

\* A ConfigFile created on a new path.
SpecConfig == Init /\ [][ConfigNext]_vars

\* A DeviceManager over a registry of three devices.
InitManager ==
    /\ RouterInit /\ ServerInit /\ ProxyInit /\ serialization = "pickle"
    /\ ZroInit
    /\ devices = ManagerConfig /\ cfg_op = NoCfgOp
    /\ ManagerInit
    /\ PublisherInit /\ pub_hwm = 1
    /\ LaterInit

SpecManager == InitManager /\ [][ManagerNext]_vars

\* A RemoteObject whose own code makes asynchronous calls and registers
\* callbacks for them.
SpecAsync == Init /\ [][AsyncNext]_vars

\* The router over more frames than its header buffer holds.
SpecRouterLong == Init /\ [][RouterLongNext]_vars

\* The router's loop with clients that write while it forwards.
SpecRouterStep == Init /\ [][RouterStepNext]_vars

\* A BaseSubRepDevice whose subscriptions are added and removed.
SpecSubscriber == Init /\ [][SubscriberNext]_vars

\* One producer, two consumers and one sink.
SpecPipe == Init /\ [][PipeNext]_vars

\* A proxy and a server that may answer after the proxy's timeout.
SpecLate == Init /\ [][LateNext]_vars

\* The same device with threaded_async set.
SpecThreaded == Init /\ [][ThreadedNext]_vars

\* The ZROProxy talking to a RemoteObjectService.
SpecZro == Init /\ [][ZroNext]_vars

(***************************************************************************)
(* Router claims                                                           *)
(***************************************************************************)

IsPlain(pkt) == pkt.message_id \notin {HANDSHAKE, REGISTER, DEREGISTER}

Copy(c, pkt) == [client |-> c, message_id |-> pkt.message_id, payload |-> pkt.payload]

\* C1: a three-frame message from sender s with message id t that is neither a
\* handshake nor a (de)registration frame is forwarded, message id and payload
\* unchanged, to every client registered for '*' and to every client
\* registered for t, and never to s.
C1_FanOut ==
    IsPlain(packet) =>
        /\ \A c \in (SeqToSet(registration[WILDCARD])
                     \cup SeqToSet(registration[packet.message_id])) \ {packet.client} :
               \E i \in 1..Len(sent) : sent[i] = Copy(c, packet)
        /\ \A i \in 1..Len(sent) :
               /\ sent[i].client # packet.client
               /\ sent[i].message_id = packet.message_id
               /\ sent[i].payload = packet.payload

\* C1 witness: A and B registered for T, C for '*', D sends T; A, B and C
\* each get the message and D does not.
C1_Witness ==
    /\ packet = [client |-> "D", message_id |-> "T", payload |-> "p"]
    /\ SeqToSet(registration["T"]) = {"A", "B"}
    /\ SeqToSet(registration[WILDCARD]) = {"C"}
    /\ {sent[i].client : i \in 1..Len(sent)} = {"A", "B", "C"}

\* A plain frame was processed: every recipient of the wildcard pass and of
\* the topic pass whose peer is connected got its copies.
StaleSkipped ==
    (message_headers' # message_headers /\ IsPlain(packet')) =>
        \A c \in Clients \ (stale' \cup {packet'.client}) :
            Count(delivered', Copy(c, packet')) =
                Count(registration'[WILDCARD], c)
                    + Count(registration'[packet'.message_id], c)

\* C17: when a recipient of a message cannot be reached (its identity is
\* stale), the Router still forwards the message to every other recipient
\* of the wildcard pass and of the topic pass, and the router loop does not
\* terminate.
C17_FailureSkipped ==
    [](~crashed) /\ [][StaleSkipped]_vars

\* C17 witness: A registered for '*' has disconnected, B is registered for
\* T; D sends T: the frame for A was written first and B got its copy.
C17_Witness ==
    /\ packet = [client |-> "D", message_id |-> "T", payload |-> "p"]
    /\ "A" \in stale
    /\ sent = <<Copy("A", packet), Copy("B", packet)>>
    /\ delivered = <<Copy("B", packet)>>

\* C2: after any sequence of register/deregister frames every client identity
\* appears at most once in the registration list of any topic.
C2_AtMostOncePerTopic ==
    \A k \in Keys, c \in Clients : Count(registration[k], c) <= 1

\* C3: once the Router has processed deregister_for_message(T) from client c,
\* c is no longer in T's registration list.
C3_DeregisterRemoves ==
    packet.message_id = DEREGISTER =>
        packet.client \notin SeqToSet(registration[packet.payload])

(***************************************************************************)
(* RemoteObject claims                                                     *)
(***************************************************************************)

\* A well-formed GET, SET or RUN packet, and the member it names.
WellFormed(f) ==
    /\ f.enc \in Encs
    /\ f.shape = "dict"
    /\ \/ f.command = "get" /\ {"command", "args"} \subseteq f.keys /\ Len(f.args) = 1
       \/ f.command = "set" /\ {"command", "args"} \subseteq f.keys /\ Len(f.args) = 2
       \/ f.command = "run" /\ AllKeys \subseteq f.keys
Target(f) == IF f.command = "run" THEN f.callable ELSE f.args[1]

IsError(value) == value.t \in {"ZroError", "ZroErrorJSON"}

\* C4: every request frame received on the reply socket is answered with
\* exactly one reply frame and no exception leaves _handle_request.
C4_ExactlyOneReply ==
    event.src = "remote" => Len(replies) = 1 /\ escaped = ""

C6_PrivateNeverServed ==
    (event.src = "remote" /\ WellFormed(event.frame)
        /\ IsPrivate(Target(event.frame)))
    => /\ Len(replies) = 1
       /\ IsError(replies[1])
       /\ ran = <<>>

\* C7: close, set_whitelist and set_blacklist are not in get_command_list()
\* and are never executed while a remote request is handled.
C7_ManagementNotRemote ==
    event.src = "remote" =>
        /\ CommandList(members)
               \cap {"close", "set_whitelist", "set_blacklist"} = {}
        /\ SeqToSet(ran) \cap {"close", "set_whitelist", "set_blacklist"} = {}

\* Where a handle is in its life.
Status(results, hlist, h) ==
    IF h \in DOMAIN results THEN "done"
    ELSE IF h \in SeqToSet(hlist) THEN "pending" ELSE "unknown"

IsGetAsyncResult(e, src) ==
    /\ e.src = src
    /\ e.frame.shape = "dict"
    /\ e.frame.command = "run"
    /\ e.frame.callable = "get_async_result"

\* What a get_async_result(h) step must do to the handle; out is what it
\* returned, notReady and unknown the two failures.
Lifecycle(h, clear, out, notReady, unknown) ==
    LET before == Status(async_results, async_handle_list, h)
        after == Status(async_results', async_handle_list', h)
    IN /\ before = "pending" => out = notReady /\ after = "pending"
       /\ before = "done" =>
              /\ out = async_results[h]
              /\ after = (IF clear THEN "unknown" ELSE "done")
       /\ before = "unknown" => out = unknown /\ after = "unknown"

\* call_async of a callable member returns a fresh handle that is pending;
\* the scheduled call stores the method's return value under it.
HandleIssuedAndFilled ==
    /\ (event'.src = "local" /\ event'.frame.callable = "call_async"
            /\ ret'.t = "int")
       => /\ Status(async_results, async_handle_list, ret'.n) = "unknown"
          /\ Status(async_results', async_handle_list', ret'.n) = "pending"
          /\ [handle |-> ret'.n, name |-> event'.frame.args[1]] \in timers'
    /\ event'.src = "timer"
       => \A tm \in timers \ timers' :
             /\ Status(async_results', async_handle_list', tm.handle) = "done"
             /\ tm.name = "my_method" => async_results'[tm.handle] = Val("r")

C19_ReplyCodec ==
    event.src = "remote" =>
        \A i \in 1..Len(codecs) :
            codecs[i] = IF event.frame.enc \in Encs THEN event.frame.enc
                        ELSE "pickle"

\* The management operation a request asks for ("" if none), and its normal
\* result.
RequestedManagementOp(f) ==
    IF f.command = "run" /\ f.callable \in ManagementOps \ {"platform_info"}
        THEN f.callable
    ELSE IF f.command = "get" /\ f.args = <<"platform_info">>
        THEN "platform_info"
        ELSE ""
NormalResult(op) ==
    CASE op = "get_command_list" -> ListVal("command_list")
      [] op = "get_attribute_list" -> ListVal("attribute_list")
      [] op = "get_uptime" -> Val("t0")
      [] op = "platform_info" -> Val("platform")
      [] OTHER -> Val(SUCCESS)

\* C20: whatever object the RemoteObject serves, a remote get_command_list,
\* get_attribute_list, get_uptime, platform_info or close is answered with
\* its normal result (and close closes the server).
C20_ManagementAlwaysPresent ==
    (event.src = "remote" /\ RequestedManagementOp(event.frame) # "") =>
        /\ replies = <<NormalResult(RequestedManagementOp(event.frame))>>
        /\ RequestedManagementOp(event.frame) = "close" => closed

(***************************************************************************)
(* DeviceProxy claims                                                      *)
(***************************************************************************)

Completed(op) == op.outcome \in {"value", "forwarder", "ok", "ZroError"}

\* C8: a proxy write x = v that succeeded, followed by a read of x on the
\* same proxy that got its reply, returns v.
C8_SetThenGet ==
    (/\ pop.kind = "get"
     /\ pop.outcome # "Again"
     /\ pprev.kind = "set"
     /\ pprev.outcome = "ok"
     /\ pprev.name = pop.name)
    => pop.outcome = "value" /\ pop.result = Val(pprev.value)

\* C10: after an operation that timed out waiting for its reply, the next
\* attribute read, attribute write or forwarder call on the same proxy,
\* issued while the server is answering, completes.
C10_NextOperationCompletes ==
    (pprev.outcome = "Again" /\ pop.kind # "" /\ pop.served) => Completed(pop)

\* C11: when a DeviceProxy operation ends because the wait for the reply
\* timed out, the proxy already holds a request socket with no request
\* outstanding at the moment the caller sees the error.
C11_FreshSocketOnTimeout ==
    pop.outcome = "Again" => req_state = "ready"

\* C13: when the server's answer to a GET or RUN is an error, or its answer
\* to a SET is not the success sentinel, the DeviceProxy operation raises
\* instead of returning, with the pickle and with the JSON serialization.
C13_ErrorReplyRaises ==
    (/\ Completed(pop)
     /\ Len(replies) = 1
     /\ \/ pop.kind \in {"get", "call"} /\ IsError(replies[1])
        \/ pop.kind = "set" /\ replies[1] # Val(SUCCESS))
    => pop.outcome = "ZroError"

\* C14: a call-forwarder obtained by reading the method attribute m sends a
\* RUN request for m whenever it is invoked, whatever was read in between.
C14_ForwarderRunsItsMethod ==
    (pop.kind = "call" /\ pop.outcome # "ZMQError") => pop.ran = pop.name

(***************************************************************************)
(* ZROProxy claims                                                         *)
(***************************************************************************)

\* C12: a ZROProxy read, write or call whose reply did not arrive within the
\* timeout raises in the caller; it never returns as if it had completed.
C12_TimeoutRaises ==
    zop.timedout => zop.outcome = "raised"

(***************************************************************************)
(* DeviceManager and ConfigFile claims                                     *)
(***************************************************************************)

\* C15: ping_device makes one request/reply round trip per attempt and
\* returns the unreachable sentinel exactly when no attempt was answered;
\* device_active returns True exactly when the device answered a request.
C15_PingAndActive ==
    /\ (dm_op.kind = "ping" /\ dm_op.outcome = "returned")
          => /\ dm_op.round_trips = dm_op.attempts
             /\ dm_op.result = "unreachable" <=> dm_op.answered = 0
    /\ (dm_op.kind = "active" /\ dm_op.outcome = "returned")
          => (dm_op.result = "True" <=> dm_op.answered > 0)

Roles == {"rep_port", "pub_port", "push_port", "pull_port"}
SameName(a, b) == Lower(a.name) = Lower(b.name)
SamePort(a, b) ==
    a.ip = b.ip /\ \E role \in Roles : a[role] # NoPort /\ a[role] = b[role]
NameTaken(d, devs) == \E i \in 1..Len(devs) : SameName(d, devs[i])
PortTaken(d, devs) == \E i \in 1..Len(devs) : SamePort(d, devs[i])

RegistryUnique ==
    \A i, j \in 1..Len(devices) :
        i # j => ~SameName(devices[i], devices[j]) /\ ~SamePort(devices[i], devices[j])

CollidingAddRaises ==
    cfg_op'.kind = "add" =>
        LET d == cfg_op'.dev IN
        /\ (NameTaken(d, devices) \/ PortTaken(d, devices))
              => cfg_op'.outcome \in {"KeyError", "ValueError"} /\ devices' = devices
        /\ cfg_op'.outcome = "KeyError" => NameTaken(d, devices)
        /\ cfg_op'.outcome = "ValueError" => PortTaken(d, devices)
        /\ cfg_op'.outcome = "ok" => devices' = Append(devices, d)

\* C16: after any sequence of add_device and remove_device calls starting
\* from an empty registry no two entries have the same name ignoring case
\* and no two entries share an (ip, port) pair for a port role; an
\* add_device that collides with an existing name or port raises KeyError
\* (name) or ValueError (port) and leaves the device list unchanged.
C16_RegistryConflicts ==
    []RegistryUnique /\ [][CollidingAddRaises]_vars

\* One device is registered and an add_device with a free name was refused
\* for its port.
C16_Witness ==
    /\ Len(devices) = 1
    /\ devices[1].name = "cam"
    /\ cfg_op.kind = "add"
    /\ cfg_op.outcome = "ValueError"
    /\ ~NameTaken(cfg_op.dev, devices)

(***************************************************************************)
(* Publisher claims                                                        *)
(***************************************************************************)

\* Queue depth 1, a subscriber attached before the first publish, two
\* publishes so far and no read of the subscriber between them.
TwoPublishesNoRead ==
    pub_hwm = 1 /\ missed = 0 /\ pub_count = 2 /\ 1 \notin read_at

\* C18 as stated: publish returns, the publish queue never holds more than
\* the high-water mark, and after two publishes at queue depth 1 with no
\* read in between the subscriber has observed at most the most recent of
\* the two values.
C18_MostRecentOnly ==
    /\ Len(pub_queue) <= pub_hwm
    /\ TwoPublishesNoRead => observed \in {<<>>, <<2>>}

\* C18 amended: publish returns, the publish queue never holds more than the
\* high-water mark, and after two publishes at queue depth 1 with no read in
\* between the subscriber observes the values in publication order, the
\* second only after the first: a full queue drops the value being
\* published, never the one already queued.
C18_OldestKept ==
    /\ Len(pub_queue) <= pub_hwm
    /\ pub_op.outcome \in {"", "queued", "dropped", "nothing"}
    /\ TwoPublishesNoRead => observed \in {<<>>, <<1>>, <<1, 2>>}

\* C18 witness: the second of two publishes was dropped at the full queue
\* and the subscriber then read the first value.
C18_Witness ==
    /\ TwoPublishesNoRead
    /\ pub_op = PubOp(2, "dropped")
    /\ observed = <<1>>

(***************************************************************************)
(* Router ordering claims                                                  *)
(***************************************************************************)

\* The copies of inbound frame n that have been sent, in the order sent.
RECURSIVE CopiesOf(_, _)
CopiesOf(w, n) ==
    IF w = <<>> THEN <<>>
    ELSE (IF Head(w).seq = n /\ Head(w).message_id # HANDSHAKE
            THEN <<Head(w).to>> ELSE <<>>) \o CopiesOf(Tail(w), n)

RECURSIVE Recipients(_)
Recipients(frames) ==
    IF frames = <<>> THEN <<>>
    ELSE <<Head(frames).client>> \o Recipients(Tail(frames))

IsPrefix(a, b) == Len(a) <= Len(b) /\ a = SubSeq(b, 1, Len(a))

\* Copies are sent in the order their messages were received.
WireInOrder ==
    \A i \in 1..Len(wire), j \in 1..Len(wire) :
        i < j => wire[i].seq <= wire[j].seq

\* The copies of a message go to the clients that were its recipients when
\* it was received, and to all of them once the router is back at
\* recv_multipart or has received a later frame.
ForwardedAsPlanned ==
    \A n \in 1..recv_count :
        /\ IsPrefix(CopiesOf(wire, n), Recipients(planned[n]))
        /\ (n < recv_count \/ rpos.phase = "recv") =>
               CopiesOf(wire, n) = Recipients(planned[n])

\* C23: the router sends every copy of a message before it reads a later
\* frame: copies of an earlier message precede copies of a later one, and a
\* registration that arrives after a message adds no copy of that message.
C23_ForwardBeforeNextRead == WireInOrder /\ ForwardedAsPlanned

\* Two messages were forwarded one after the other, the first of them to
\* two recipients.
C23_Witness ==
    /\ Len(CopiesOf(wire, 3)) = 2
    /\ Len(CopiesOf(wire, 4)) >= 1
    /\ rpos.phase = "recv"

\* The last n entries of a list (all of it when it is shorter).
LastN(s, n) == IF Len(s) <= n THEN s ELSE SubSeq(s, Len(s) - n + 1, Len(s))

\* The buffer is the tail of the arrival history, at most header_retention long.
HeadersAreLatest ==
    /\ Len(message_headers) <= header_retention
    /\ message_headers = LastN(arrivals, header_retention)

\* The copies sent for a frame are those of the registration table alone.
RecipientsFromRegistration ==
    packet'.message_id # HANDSHAKE =>
        sent' = Forward(registration', packet')

\* C24: message_headers holds at most header_retention entries, the (sender,
\* message id) pairs of the latest non-handshake frames in arrival order,
\* and the recipients of a message do not depend on it.
C24_HeaderBuffer == []HeadersAreLatest /\ [][RecipientsFromRegistration]_vars

\* More frames have arrived than the buffer holds: the first one, from B, has
\* been evicted and a later one from B is the newest entry.
C24_Witness ==
    /\ Len(arrivals) > header_retention
    /\ arrivals[1][1] = "B"
    /\ message_headers[1][1] = "A"
    /\ message_headers[Len(message_headers)][1] = "B"
    /\ Len(sent) = 1

\* C25: a client is in the router's known-client set from the moment its
\* handshake frame is received, and no later frame removes a client from
\* the set.
C25_KnownClients ==
    /\ []((packet # NoPacket /\ packet.message_id = HANDSHAKE) =>
             packet.client \in clients)
    /\ [][clients \subseteq clients']_vars

(***************************************************************************)
(* Subscriber claims                                                       *)
(***************************************************************************)

RECURSIVE WithId(_, _)
WithId(q, id) ==
    IF q = <<>> THEN 0
    ELSE (IF Head(q).id = id THEN 1 ELSE 0) + WithId(Tail(q), id)

\* Every pushed id is in exactly one place: waiting at a consumer, processed
\* without a sink, waiting at the sink as a result, or handled by the sink.
EachIdOnce ==
    \A id \in 1..push_count :
        /\ WithId(sink_handled, id) <= 1
        /\ WithId(work_q["c1"], id) + WithId(work_q["c2"], id)
             + (IF id \in no_sink THEN 1 ELSE 0)
             + WithId(result_q, id) + WithId(sink_handled, id) = 1

\* Results and handled data are process(work) of the work pushed.
ResultsAreProcessed ==
    /\ \A i \in DOMAIN result_q : result_q[i].data = Process("w")
    /\ \A i \in DOMAIN sink_handled :
           /\ sink_handled[i].data = Process("w")
           /\ sink_handled[i].id \in 1..push_count

\* The sink names a result after the batch it has when the result arrives.
NamedAtArrival ==
    Len(sink_handled') = Len(sink_handled) + 1 =>
        /\ sink_handled'[Len(sink_handled')].batch = batch
        /\ sink_handled'[Len(sink_handled')].id = Head(result_q).id

\* C27: each work item pulled by a consumer that has a sink gives exactly one
\* result with the same id, which the sink hands to handle_data exactly once
\* under the batch the sink has when the result arrives.
C27_ExactlyOnceWithId ==
    /\ [](EachIdOnce /\ ResultsAreProcessed)
    /\ [][NamedAtArrival]_vars

\* Two items were handled by the sink, the second before the first, and one
\* of them under another batch than the one open when it was pushed.
C27_Witness ==
    /\ Len(sink_handled) = 2
    /\ sink_handled[1].id = 2
    /\ sink_handled[2].id = 1
    /\ sink_handled[1].batch # pushed_in[2]

(***************************************************************************)
(* Late reply claims                                                       *)
(***************************************************************************)

\* Requests of the current socket that are unanswered or whose reply is unread.
Outstanding == Len(RepliesTo(rq_server, rq_sock)) + Len(rq_inbox)

\* C28: at most one request awaits a reply on the proxy's socket, and the
\* reply an operation reads is the reply to the request it sent, never the
\* late reply to a request that timed out.
C28_ReplyMatchesRequest ==
    /\ Outstanding <= 1
    /\ rq_op.outcome = "value" => rq_op.reply_of = rq_op.seq

\* An operation got its reply on a new socket after an earlier request had
\* timed out, and the server has answered every request it was sent.
C28_Witness ==
    /\ rq_op.outcome = "value"
    /\ rq_op.seq >= 2
    /\ rq_sock >= 2
    /\ rq_server = <<>>

(***************************************************************************)
(* Asynchronous callback claims                                            *)
(***************************************************************************)

\* The destinations registered for a method that answer.
Reachable(name) ==
    {async_callbacks[name][i] : i \in {j \in 1..Len(async_callbacks[name]) :
                                         async_callbacks[name][j].addr \notin dest_down}}

\* A step of _call_async for a call that returned: the result is stored under
\* the handle and every registered destination that answers was sent it.
DeliveredToAll ==
    \A tm \in timers :
        (tm \notin timers' /\ event'.src = "timer" /\ tm.name # "bad_method") =>
            /\ tm.handle \in DOMAIN async_results'
            /\ async_results'[tm.handle] = ReturnValue(tm.name)
            /\ \A d \in Reachable(tm.name) :
                   \E i \in 1..Len(cb_sent') :
                       cb_sent'[i] = [dest |-> d, result |-> ReturnValue(tm.name)]

\* C21: when an asynchronous call of m completes, its result is stored under
\* the handle and delivered to every destination registered for m; a
\* destination that fails does not stop the delivery to the others and does
\* not change the stored result.
C21_CallbackDelivery == [][DeliveredToAll]_vars

\* C22: in threaded-async mode the result slot of a handle is written at
\* most once, that write is the only state of the device a timer thread
\* shares with the reactor thread, and a stored result is the result of the
\* call that was given the handle.
C22_SingleWriterHandoff ==
    /\ \A h \in DOMAIN tthreads : tthreads[h].writes <= 1
    /\ thread_touched \subseteq {"_async_results"}
    /\ \A h \in DOMAIN tthreads \cap DOMAIN async_results :
           async_results[h] = IF tthreads[h].name = "bad_method"
                                 THEN ZroError("bad_method", 4, 0)
                                 ELSE ReturnValue(tthreads[h].name)

(***************************************************************************)
(* Shared session id claims                                                *)
(***************************************************************************)

OnChannel(ch) == {i \in Instances : ChannelOf(i) = ch}

\* No call or keyspace message of the channel is in progress, and more than
\* one heartbeat period has passed since its key last changed.
HeartbeatElapsed(ch) ==
    /\ \A i \in OnChannel(ch) : ss_call[i] = Idle /\ notified[i] = 0
    /\ now - changed_at[ch] > HeartbeatPeriod

\* C29: once a heartbeat period has passed since an instance started the
\* session that its channel's key holds, every instance of the channel, in
\* each of the three modes, reports the session id the starter reports, and
\* no instance of another channel reports that id.
C29_SharedAfterHeartbeat ==
    \A ch \in Channels :
        (rdb[ch] # NoSession /\ ~overlapped[ch] /\ HeartbeatElapsed(ch)) =>
            /\ \A i \in OnChannel(ch) : Reported(i) = Reported(starter[ch])
            /\ \A j \in Instances \ OnChannel(ch) :
                   HeartbeatElapsed(ChannelOf(j)) =>
                       Reported(j) # Reported(starter[ch])

\* Both rigs hold a session, each stored by a single start_session, and a
\* heartbeat period has passed.
C29_Witness ==
    /\ \A ch \in Channels :
           rdb[ch] # NoSession /\ ~overlapped[ch] /\ HeartbeatElapsed(ch)
    /\ \A i \in Instances : session[i] = rdb[ChannelOf(i)]

\* C30: once a heartbeat period has passed since the key of a channel was
\* deleted by end_session, or removed at the end of its time to live, every
\* instance of the channel reports no session.
C30_EndedEverywhere ==
    \A ch \in Channels :
        (rdb[ch] = NoSession /\ HeartbeatElapsed(ch)) =>
            \A i \in OnChannel(ch) : Reported(i) = NoSession

(***************************************************************************)
(* Router forwarding claims                                                *)
(***************************************************************************)

\* Number of frames the last iteration of _poll addressed to c.
CopiesTo(c) == Cardinality({i \in 1..Len(sent) : sent[i].client = c})

\* C31: a client that is listed once for '*' and once for the topic of a
\* message, like any client listed at most once per topic, is sent at most
\* one copy of an inbound message.
C31_OneCopyPerClient ==
    (packet # NoPacket /\ packet.message_id \in Keys) =>
        \A c \in Clients :
            (/\ Count(registration[WILDCARD], c) <= 1
             /\ Count(registration[packet.message_id], c) <= 1)
                => CopiesTo(c) <= 1

\* A registration frame was processed: nothing was sent, and the only list
\* that changed is the one of the topic it names, and only in its entries
\* for the sender.
RegistrationOnly ==
    (message_headers' # message_headers
     /\ packet'.message_id \in {REGISTER, DEREGISTER}) =>
        /\ sent' = <<>>
        /\ \A k \in Keys \ {packet'.payload} :
               registration'[k] = registration[k]
        /\ \A c \in Clients \ {packet'.client} :
               Count(registration'[packet'.payload], c)
                   = Count(registration[packet'.payload], c)

\* C32: a register_for_message or deregister_for_message frame makes the
\* Router send nothing, and changes the registration of no client but the
\* sender and of no topic but the one the frame names.
C32_RegistrationFrameEffect == [][RegistrationOnly]_vars

(***************************************************************************)
(* Subscriber reactor claims                                               *)
(***************************************************************************)

\* C33: no request and no subscription message makes the Subscriber device
\* leave the loop of run_forever: whatever has arrived, the loop is still
\* running and goes on to serve what arrives later.
C33_LoopSurvives == rf_running

(***************************************************************************)
(* RemoteObjectService claims                                              *)
(***************************************************************************)

\* The service has processed the last operation of the proxy.
ZProcessed == zop.kind # "" /\ ~zop.timedout

\* C34: after a RUN on which the target raised, for which the service has
\* sent its reply, the serving loop of the service is still running and
\* will receive the next request.
C34_ServiceSurvivesRaise ==
    (ZProcessed /\ zop.kind = "call" /\ zmembers[zop.name].kind = "raising")
        => zalive

\* C35: a processed SET of the attribute x leaves x with the value the
\* proxy sent, whatever the value, and a processed GET of x that follows it
\* returns that value.
C35_SetThenGet ==
    /\ (ZProcessed /\ zop.kind = "set" /\ zop.name = "x")
           => zmembers["x"] = ZAttr(zop.value)
    /\ (/\ ZProcessed /\ zop.kind = "get" /\ zop.name = "x"
        /\ zprev.kind = "set" /\ zprev.name = "x" /\ ~zprev.timedout)
           => zop.result = zprev.value

(***************************************************************************)
(* ZMQHandler claims                                                       *)
(***************************************************************************)

\* C36: for the same frame and the same callbacks receive() and _poll run
\* the same callback, the one of the message id if there is one, else the
\* one registered for '*' if there is one, else none, and neither raises.
C36_SameDispatch ==
    h_message # "" =>
        /\ h_receive = h_poll
        /\ h_poll.raised = ""
        /\ h_poll.ran \in {h_message, WILDCARD, ""}

(***************************************************************************)
(* Asynchronous call claims                                                *)
(***************************************************************************)

\* A RUN request for call_async with the name of a member.
IsCallAsync(e) ==
    /\ e.src = "remote"
    /\ e.frame.shape = "dict"
    /\ e.frame.command = "run"
    /\ e.frame.callable = "call_async"
    /\ e.frame.args # <<>>

\* The request is answered with the next handle while the call is still
\* scheduled and nothing is stored under the handle; a name that is absent
\* or not callable is answered with an error and changes nothing.
AnsweredBeforeRun ==
    IsCallAsync(event') =>
        LET name == event'.frame.args[1]
            handle == async_handle_index
        IN IF members[name].kind = "method"
              THEN /\ replies' = <<IntVal(handle)>>
                   /\ async_handle_index' = handle + 1
                   /\ async_handle_list' = Append(async_handle_list, handle)
                   /\ timers' = timers \cup {[handle |-> handle, name |-> name]}
                   /\ handle \notin DOMAIN async_results'
                   /\ name \notin SeqToSet(ran')
              ELSE /\ Len(replies') = 1
                   /\ IsError(replies'[1])
                   /\ UNCHANGED <<async_handle_index, async_handle_list,
                                  timers, async_results>>

\* The handles issued and not cleared are distinct and increasing, and all
\* below the next handle.
HandlesIncrease ==
    /\ \A i, j \in 1..Len(async_handle_list) :
           i < j => async_handle_list[i] < async_handle_list[j]
    /\ \A i \in 1..Len(async_handle_list) :
           async_handle_list[i] < async_handle_index

C38_RemoveCompletes == sub_raised = ""

(***************************************************************************)
(* Update interval claims                                                  *)
(***************************************************************************)

\* An assignment of a negative value raises ValueError and changes neither
\* the stored interval nor the timer.
NegativeRejected ==
    (ui_op'.kind = "set" /\ ui_op'.ms < 0) =>
        /\ ui_op'.raised = "ValueError"
        /\ UNCHANGED <<update_interval, update_timer, scheduled>>

\* _onupdate does not run while the interval is 0.
QuietAtZero == ui_op'.kind = "fire" => update_interval # 0

\* C39: assigning a negative update_interval raises ValueError and leaves
\* the stored interval and the update timer as they were; once 0 has been
\* assigned _onupdate is not invoked until a positive value is assigned.
C39_IntervalSetter == [][NegativeRejected /\ QuietAtZero]_vars

(***************************************************************************)
(* Session start claims                                                    *)
(***************************************************************************)

\* A start_session that finds a value stored and is not to replace it
\* returns normally, leaves the stored value and every instance's session
\* as they were, generates no id, and gives the key the time to live asked.
KeepsExisting ==
    ss_kept' # ss_kept =>
        /\ ss_kept'.raised = ""
        /\ rdb' = rdb
        /\ \A i \in OnChannel(ss_kept'.ch) : Reported(i)' = Reported(i)
        /\ started' = started
        /\ expiry'[ss_kept'.ch] = ss_kept'.ex

\* C40: start_session(ttl, kill_existing=False) on a channel that holds a
\* session id keeps that id in the database and in every instance of the
\* channel and renews only the time to live; a new id is made only when
\* there was none or kill_existing is True.
C40_StartKeepsSession == [][KeepsExisting]_vars

====
